---------------------------- MODULE Spec2Model ----------------------------
(***************************************************************************)
(* Model of the binary-variant / line-verification / issue-detection       *)
(* pipeline of binary_generator.py, utils.py and get_line_nums.py.         *)
(*                                                                         *)
(* The module holds several state machines over one set of variables, one  *)
(* per operation that is analysed:                                         *)
(*   Spec        BinaryAnalyzer.generate_variants (the compile sweep)      *)
(*   VerifySpec  verify_line_nums, one debugger session (both modules)     *)
(*   FilesSpec   LineNumberExtractor.get_line_nums, the files of a binary  *)
(*   LinesSpec   BinaryAnalyzer.get_line_numbers, the retained binaries    *)
(*   IssuesSpec  BinaryAnalyzer._find_issues_type1_2, one binary           *)
(*   DetectSpec  BinaryAnalyzer.find_issues_type1_2 and _write_results     *)
(*   PoolSpec    the executors that verify several binaries                *)
(*   FanSpec     ParallelSourceAnalysis.run_parallel_analysis              *)
(*   AnalysisSpec  analyze_single_source: the phases for one source file   *)
(*   FoldSpec    get_line_numbers_by_file                                  *)
(*   ScanSpec    parse_debug_line                                          *)
(*   RetainSpec  generate_variants, then get_line_numbers (as one step)    *)
(*   ApiSpec     the methods of one BinaryAnalyzer called in any order     *)
(* Spec also holds BinaryAnalyzer.cleanup after the sweep.                 *)
(* A machine leaves the variables of the others at their idle values.      *)
(***************************************************************************)
EXTENDS Integers, Sequences, FiniteSets, TLC

VARIABLES
    \* ---- BinaryAnalyzer.generate_variants
    gv_pc,          \* "ready" | "loop" | "returned" | "raised" | "blocked"
    oi,             \* index into opt_levels of the outer for loop
    di,             \* index into dbg_levels of the inner for loop
    binaries,       \* self.binaries: sequence of Binary records
    file_hashes,    \* the local set file_hashes
    disk,           \* output directory: artifact path -> content hash
    invoked,        \* the compiler invocations made so far, in order
    \* ---- verify_line_nums (one debugger session)
    impl,           \* "utils" (utils.py) | "gln" (get_line_nums.py)
    v_pc,           \* position inside verify_line_nums
    line_numbers,   \* the candidate list passed in
    bp_i,           \* index of the for loop over line_numbers
    breakpoints,    \* the list of accepted (valid) breakpoints' lines
    verified_line_nums, \* the set verified_line_nums
    hit,            \* requested lines whose breakpoint has GetHitCount() > 0
    proc,           \* "none" | "invalid" | "stopped" | "exited" | "killed" | "running"
    dbg,            \* "none" | "created" | "destroyed"
    target,         \* "unbound" | "invalid" | "valid" | "deleted"
    fail,           \* where the call left its normal path ("" = nowhere)
    ret,            \* [kind |-> "pending"|"list"|"None"|"raise", val |-> seq]
    relLog,         \* the release operations performed, in order
    nstops,         \* stops observed so far
    stoppedAt,      \* frame lines seen at breakpoint stops so far
    qualified,      \* lines l seen at a breakpoint stop with hit count of l's breakpoint > 0
    faithful,       \* every breakpoint stop so far was at a line whose own breakpoint had fired
    \* ---- LineNumberExtractor.get_line_nums (files of one binary)
    f_pc,           \* "start" | "loop" | "done"
    by_file,        \* line_numbers_by_file: sequence of [file, lines]
    source_files,   \* the compile-unit list
    f_i,            \* index of the for loop over by_file
    verified_line_numbers, \* the map built so far: sequence of [file, lines]
    f_ret,          \* the returned map: sequence of [file, lines]
    f_out,          \* per file index: what verify_line_nums did ("skip","list","None","raise","")
    f_val,          \* per file index: the list verify_line_nums computed
    f_err,          \* "" | "dump" | "verify": why get_line_nums' except clause ran
    \* ---- BinaryAnalyzer.get_line_numbers (process pool over the binaries)
    l_pc,           \* "ready" | "mapping" | "done"
    results,        \* per binary index: the Binary its worker holds and returns
    worker_fail,    \* per binary index: "pending", or why its verification failed ("" = it did not)
    worker_map,     \* per binary index: the map built when get_line_nums returned or failed
    before,         \* self.binaries when get_line_numbers was called
    \* ---- BinaryAnalyzer._find_issues_type1_2
    i_pc,           \* "loop" | "done"
    todo,           \* debug values still to classify, in iteration order
    binary_issues,  \* the list binary_issues
    last,           \* the debug value classified last
    lastAdded,      \* how many issues that value appended
    \* ---- BinaryAnalyzer.cleanup and the temporary output directory
    c_pc,           \* "idle" | "cleaned" | "again"
    c_before,       \* self.binaries when cleanup was called
    c_disk,         \* the output directory's content when cleanup was called
    dir_exists,     \* the output directory exists
    analyzer,       \* SingleSourceAnalysis.analyzer: "set" | "None"
    c_err,          \* a call of cleanup has raised
    \* ---- BinaryAnalyzer.find_issues_type1_2 (pool over the binaries, evidence)
    d_pc,           \* "ready" | "mapping" | "done" | "raised"
    d_state,        \* per binary index: "pending" | "returned" | "raised"
    d_found,        \* per binary index: the issues its worker appended to binary_issues
    issues,         \* the flattened list `issues`
    evidence,       \* the entries written to the evidence directory
    d_out,          \* "" | "written" | "no_issues": which branch of `if issues` ran
    d_order,        \* the binary indices in the order in which their workers ended
    \* ---- the executor that verifies several binaries
    entry,          \* "analyzer" (BinaryAnalyzer.get_line_numbers) | "main" (get_line_nums.py)
    pool_pc,        \* "ready" | "submitted" | "done"
    task_state,     \* per binary index: "queued" | "running" | "done"
    task_worker,    \* per binary index: the pool worker that took the task (0 = none yet)
    \* ---- ParallelSourceAnalysis.run_parallel_analysis
    fan_pc,         \* "ready" | "collecting" | "unwinding" | "returned" | "raised"
    src_state,      \* per source index: "pending" | "queued" | "running" | "done" |
                    \*                   "failed" | "cancelled"
    it_pos,         \* index of the future the result iterator of executor.map waits for
    \* ---- ParallelSourceAnalysis.analyze_single_source (the phases for one source file)
    a_pc,           \* "sweep" | "verify" | "detect" | "write" | "exit_with" | "cleanup" | "end"
    a_k,            \* index in sweep order of the next (opt, debug) pair to compile
    a_bins,         \* self.binaries: the sweep indices of the retained binaries
    a_exc,          \* an exception is propagating out of run_analysis
    ver,            \* per retained binary: "waiting" | "running" | "done" (verification)
    det,            \* per retained binary: "waiting" | "running" | "none" | "issues" | "raised"
    map_writes,     \* per retained binary: the assignments made to its line_numbers map
    map_writers,    \* per retained binary: the verification tasks that assigned its map
    artifacts,      \* the retained binaries (by position) whose artifact is on disk
    a_dir,          \* the temporary output directory exists
    copied,         \* the retained binaries copied to the evidence directory
    copied_live,    \* ... of these, the ones whose artifact was on disk when it was copied
    leftover,       \* the number of artifacts on disk that belong to no retained binary
    \* ---- get_line_numbers_by_file (the fold of the line table)
    g_pc,           \* "loop" | "done"
    file_table,     \* file index -> [named, name]: the parsed file table
    line_info,      \* the parsed rows: sequence of [file, line, flags]
    g_i,            \* index of the for loop over line_info
    line_numbers_by_file, \* the dict built so far: sequence of [file, lines (a set)]
    g_ret,          \* the returned dict: sequence of [file, lines (a sorted list)]
    \* ---- parse_debug_line (the scan of the line-table dump)
    s_pc,           \* "ready" | "scan" | "returned"
    output,         \* the dump text: the sequence of its lines
    s_i,            \* index of the for loop over output.split('\n')
    s_file_table,   \* the local file_table: file index -> [named, name, has_dir, dir_index]
    s_line_info,    \* the local line_info: sequence of [file, line, flags]
    current_file,   \* the local current_file (0 = None)
    parsing_file_table, \* the local parsing_file_table
    recorded_at,    \* the positions in output of the lines appended to line_info, in order
    s_call,         \* the calls of parse_debug_line begun so far
    s_self,         \* the extractor the current call runs on
    s_first,        \* what the first call returned
    s_ret,          \* what the latest call returned
    \* ---- one pool worker process running Binary.get_line_numbers tasks
    w_pc,           \* "fetch" | "files" | "create" | "target" | "body" | "finally" | "blocked"
    w_tasks,        \* per task (binary) of this worker: the number of compile-unit files
    w_bin,          \* the task the worker is at
    w_file,         \* the file of the task the loop of get_line_nums is at
    w_calls,        \* the calls of verify_line_nums begun in this process
    sessions,       \* the debugger sessions created in this process, in order
    w_target,       \* the target of the current session
    w_fail          \* the point where the current call left its normal path

sweepVars  == <<gv_pc, oi, di, binaries, file_hashes, disk, invoked>>
verifyVars == <<impl, v_pc, line_numbers, bp_i, breakpoints, verified_line_nums,
                hit, proc, dbg, target, fail, ret, relLog, nstops, stoppedAt,
                qualified, faithful>>
filesVars  == <<f_pc, by_file, source_files, f_i, verified_line_numbers, f_ret,
                f_out, f_val, f_err>>
linesVars  == <<l_pc, results, worker_fail, worker_map, before>>
issuesVars == <<i_pc, todo, binary_issues, last, lastAdded>>
cleanupVars == <<c_pc, c_before, c_disk, dir_exists, analyzer, c_err>>
detectVars == <<d_pc, d_state, d_found, issues, evidence, d_out, d_order>>
\* the variables of the orchestration machines
poolVars == <<entry, pool_pc, task_state, task_worker>>
fanVars == <<fan_pc, src_state, it_pos>>
pipeVars == <<a_pc, a_k, a_bins, a_exc, ver, det, map_writes, map_writers, artifacts,
              a_dir, copied, copied_live, leftover>>
foldVars == <<g_pc, file_table, line_info, g_i, line_numbers_by_file, g_ret>>
scanVars == <<s_pc, output, s_i, s_file_table, s_line_info, current_file,
              parsing_file_table, recorded_at, s_call, s_self, s_first, s_ret>>
workerVars == <<w_pc, w_tasks, w_bin, w_file, w_calls, sessions, w_target, w_fail>>
restVars == <<detectVars, poolVars, fanVars, pipeVars, foldVars, scanVars, workerVars>>
vars == <<sweepVars, verifyVars, filesVars, linesVars, issuesVars, cleanupVars, restVars>>

(***************************************************************************)
(* Bounds of the model.                                                    *)
(***************************************************************************)
NumOpt == 2
NumDbg == 2
NumHash == 2
MaxSweeps == 2

(***************************************************************************)
(* Helpers on sequences and sets.                                          *)
(***************************************************************************)
Range(s) == {s[k] : k \in DOMAIN s}

Min(S) == CHOOSE x \in S : \A y \in S : x <= y

RECURSIVE SortedSeq(_)
\* Python's sorted() of a set of integers
SortedSeq(S) == IF S = {} THEN <<>> ELSE <<Min(S)>> \o SortedSeq(S \ {Min(S)})

(***************************************************************************)
(* CompilerConfig: the levels swept.                                       *)
(***************************************************************************)
AllOptLevels == <<"0", "1", "2", "3", "s", "z">>
AllDbgLevels == <<"1", "2", "3">>
opt_levels == SubSeq(AllOptLevels, 1, NumOpt)
dbg_levels == SubSeq(AllDbgLevels, 1, NumDbg)
Hashes == 1..NumHash

\* Binary.__init__: the artifact path is derived from the two levels
file_path(opt_level, debug_level) == <<opt_level, debug_level>>

NewBinary(opt_level, debug_level, h) ==
    [optimization_level |-> opt_level, debug_level |-> debug_level,
     hash_value |-> h, line_numbers |-> <<>>]

\* the files present in the output directory
OnDisk == DOMAIN disk

ArtifactOf(b) == file_path(b.optimization_level, b.debug_level)

(***************************************************************************)
(* BinaryAnalyzer.generate_variants                                        *)
(***************************************************************************)
SweepInit ==
    /\ gv_pc = "ready"
    /\ oi = 1
    /\ di = 1
    /\ binaries = <<>>
    /\ file_hashes = {}
    /\ disk = <<>>
    /\ invoked = <<>>

\* `file_hashes = set()` and entry into the nested for loops
generate_variants_begin ==
    /\ gv_pc = "ready"
    /\ file_hashes' = {}
    /\ oi' = 1
    /\ di' = 1
    /\ gv_pc' = IF NumOpt = 0 \/ NumDbg = 0 THEN "returned" ELSE "loop"
    /\ UNCHANGED <<binaries, disk, invoked>>

\* the calls of generate_variants that have compiled their first pair
SweepsBegun ==
    Cardinality({k \in DOMAIN invoked : invoked[k] = <<opt_levels[1], dbg_levels[1]>>})

\* generate_variants is called again on the same analyzer: `file_hashes = set()`
\* is a new local, self.binaries is what the earlier calls left
generate_variants_again ==
    /\ gv_pc = "returned"
    /\ SweepsBegun < MaxSweeps
    /\ file_hashes' = {}
    /\ oi' = 1
    /\ di' = 1
    /\ gv_pc' = "loop"
    /\ UNCHANGED <<binaries, disk, invoked>>

\* the nested for loops move to the next (opt, debug) pair, or the call returns
NextPair ==
    /\ di' = IF di < Len(dbg_levels) THEN di + 1 ELSE 1
    /\ oi' = IF di < Len(dbg_levels) THEN oi ELSE oi + 1
    /\ gv_pc' = IF di = Len(dbg_levels) /\ oi = Len(opt_levels)
                THEN "returned" ELSE "loop"

KeepBinary_NoDedup(h, hashes) == TRUE

\* `if binary and binary.hash_value not in file_hashes` (binary is not None here)
KeepBinary(h, hashes) == h \notin hashes

Retain_AtFront(bs, b) == <<b>> \o bs

\* `self.binaries.append(binary)`
Retain(bs, b) == Append(bs, b)

\* the compiler exits 0: the artifact is written, hashed, and kept unless its hash is known
CompileSucceeds(h) ==
    /\ gv_pc = "loop"
    /\ LET opt_level == opt_levels[oi]
           debug_level == dbg_levels[di]
           path == file_path(opt_level, debug_level)
       IN  /\ invoked' = Append(invoked, <<opt_level, debug_level>>)
           /\ disk' = [p \in OnDisk \cup {path} |-> IF p = path THEN h ELSE disk[p]]
           /\ IF KeepBinary(h, file_hashes)
              THEN /\ binaries' = Retain(binaries, NewBinary(opt_level, debug_level, h))
                   /\ file_hashes' = file_hashes \cup {h}
              ELSE UNCHANGED <<binaries, file_hashes>>
    /\ NextPair

CompileExitsNonZero_EndsLevel ==
    /\ gv_pc = "loop"
    /\ invoked' = Append(invoked, <<opt_levels[oi], dbg_levels[di]>>)
    /\ UNCHANGED <<binaries, file_hashes, disk>>
    /\ di' = 1
    /\ oi' = oi + 1
    /\ gv_pc' = IF oi = Len(opt_levels) THEN "returned" ELSE "loop"

\* the compiler exits non-zero: CalledProcessError is caught, generate_binary
\* returns False, _generate_binary returns None
CompileExitsNonZero ==
    /\ gv_pc = "loop"
    /\ invoked' = Append(invoked, <<opt_levels[oi], dbg_levels[di]>>)
    /\ UNCHANGED <<binaries, file_hashes, disk>>
    /\ NextPair

\* the compiler cannot be started: subprocess.run raises an OSError
\* (FileNotFoundError, PermissionError), which no except clause catches
CompileCannotStart ==
    /\ gv_pc = "loop"
    /\ invoked' = Append(invoked, <<opt_levels[oi], dbg_levels[di]>>)
    /\ gv_pc' = "raised"
    /\ UNCHANGED <<oi, di, binaries, file_hashes, disk>>
\* the compiler never exits: subprocess.run is called without a timeout and
\* does not return
CompileNeverReturns ==
    /\ gv_pc = "loop"
    /\ invoked' = Append(invoked, <<opt_levels[oi], dbg_levels[di]>>)
    /\ gv_pc' = "blocked"
    /\ UNCHANGED <<oi, di, binaries, file_hashes, disk>>


(***************************************************************************)
(* BinaryAnalyzer.cleanup, and the temporary directory of run_analysis     *)
(***************************************************************************)
CleanupIdle ==
    /\ c_pc = "idle"
    /\ c_before = <<>>
    /\ c_disk = <<>>
    /\ dir_exists = TRUE
    /\ analyzer = "set"
    /\ c_err = FALSE

\* Binary.cleanup of every binary of bs: each artifact that exists is unlinked
AfterUnlink(d, bs) ==
    [p \in DOMAIN d \ {ArtifactOf(bs[k]) : k \in DOMAIN bs} |-> d[p]]

RemoveOutputDir_Always(exists, remaining) == exists

\* `if self.output_dir.exists() and not any(self.output_dir.iterdir())`
RemoveOutputDir(exists, remaining) == exists /\ remaining = {}

ShouldUnlink_Always(exists) == TRUE

\* Binary.cleanup: `if self.file_path.exists():` guards `self.file_path.unlink()`
ShouldUnlink(exists) == exists

\* Path.unlink() is called on an artifact that is not on disk (FileNotFoundError)
CleanupRaises(d, bs) ==
    \E k \in DOMAIN bs :
        ShouldUnlink(ArtifactOf(bs[k]) \in DOMAIN d) /\ ArtifactOf(bs[k]) \notin DOMAIN d

\* the body of BinaryAnalyzer.cleanup; the first call leads to "cleaned", a
\* further one to "again"
CleanupBody ==
    /\ c_before' = binaries
    /\ c_disk' = disk
    /\ IF CleanupRaises(disk, binaries)
       THEN /\ c_err' = TRUE
            /\ UNCHANGED <<disk, binaries, dir_exists>>
       ELSE /\ c_err' = c_err
            /\ disk' = AfterUnlink(disk, binaries)
            /\ binaries' = <<>>
            /\ dir_exists' = (dir_exists /\ ~RemoveOutputDir(dir_exists, DOMAIN disk'))
    /\ c_pc' = IF c_pc = "idle" THEN "cleaned" ELSE "again"

\* BinaryAnalyzer.cleanup, once generate_variants has returned or raised
cleanup ==
    /\ gv_pc \in {"returned", "raised"}
    /\ c_pc \in {"idle", "cleaned"}
    /\ CleanupBody
    /\ UNCHANGED <<gv_pc, oi, di, file_hashes, invoked, analyzer>>

\* SingleSourceAnalysis.cleanup: `if self.analyzer: self.analyzer.cleanup()`,
\* then `self.analyzer = None`
SingleSourceAnalysis_cleanup ==
    /\ gv_pc \in {"returned", "raised"}
    /\ c_pc \in {"idle", "cleaned"}
    /\ IF analyzer = "set"
       THEN CleanupBody
       ELSE /\ c_before' = binaries
            /\ c_disk' = disk
            /\ c_pc' = IF c_pc = "idle" THEN "cleaned" ELSE "again"
            /\ UNCHANGED <<disk, binaries, dir_exists, c_err>>
    /\ analyzer' = "None"
    /\ UNCHANGED <<gv_pc, oi, di, file_hashes, invoked>>

\* run_analysis leaves `with tempfile.TemporaryDirectory()`: the directory and
\* everything in it is removed, before cleanup is called
TemporaryDirectory_exit ==
    /\ gv_pc \in {"returned", "raised"}
    /\ c_pc = "idle"
    /\ dir_exists
    /\ disk' = <<>>
    /\ dir_exists' = FALSE
    /\ UNCHANGED <<gv_pc, oi, di, binaries, file_hashes, invoked, c_pc, c_before, c_disk,
                   analyzer, c_err>>


(***************************************************************************)
(* verify_line_nums: one debugger session.                                 *)
(* utils.py: LineNumberExtractor._lldb_session / verify_line_nums          *)
(* get_line_nums.py: LineNumberVerifier.verify_line_nums / _cleanup        *)
(***************************************************************************)
MaxStops == 2

Impls == {"utils", "gln"}
\* candidate lines of the model, and the lines a frame can report
Lines == {5, 6, 9}
FrameLines == Lines \cup {7}
CandidateLists == {SortedSeq(S) : S \in SUBSET Lines}

\* the places where a call can leave its normal path
FailPoints == {"target_raise", "target_invalid", "bp_raise", "launch_raise",
               "launch_invalid", "loop_raise"}

NoRet == [kind |-> "pending", val |-> <<>>]

VerifyIdle ==
    /\ v_pc = "idle"
    /\ line_numbers = <<>>
    /\ bp_i = 1
    /\ breakpoints = <<>>
    /\ verified_line_nums = {}
    /\ hit = {}
    /\ proc = "none"
    /\ dbg = "none"
    /\ target = "unbound"
    /\ fail = ""
    /\ ret = NoRet
    /\ relLog = <<>>
    /\ nstops = 0
    /\ stoppedAt = {}
    /\ qualified = {}
    /\ faithful = TRUE

VerifyInit ==
    /\ impl \in Impls
    /\ v_pc = "start"
    /\ line_numbers \in CandidateLists
    /\ bp_i = 1
    /\ breakpoints = <<>>
    /\ verified_line_nums = {}
    /\ hit = {}
    /\ proc = "none"
    /\ dbg = "none"
    /\ target = "unbound"
    /\ fail = ""
    /\ ret = NoRet
    /\ relLog = <<>>
    /\ nstops = 0
    /\ stoppedAt = {}
    /\ qualified = {}
    /\ faithful = TRUE

sessionFrame == <<impl, line_numbers>>
stopFrame == <<nstops, stoppedAt, qualified, faithful, hit, verified_line_nums>>

\* debugger = SBDebugger.Create(); debugger.SetAsync(False)
CreateDebugger ==
    /\ v_pc = "start"
    /\ dbg' = "created"
    /\ v_pc' = "target"
    /\ UNCHANGED <<sessionFrame, stopFrame, bp_i, breakpoints, proc, target, fail,
                   ret, relLog>>

\* the call leaves its normal path at point f and goes to its release code
Leave(f) ==
    /\ fail' = f
    /\ v_pc' = "release"

\* target = debugger.CreateTargetWithFileAndArch(...): a valid target
CreateTargetValid ==
    /\ v_pc = "target"
    /\ target' = "valid"
    /\ v_pc' = "bps"
    /\ UNCHANGED <<sessionFrame, stopFrame, bp_i, breakpoints, proc, dbg, fail,
                   ret, relLog>>

\* ... an invalid target: utils raises RuntimeError, gln returns None
CreateTargetInvalid ==
    /\ v_pc = "target"
    /\ target' = "invalid"
    /\ Leave("target_invalid")
    /\ UNCHANGED <<sessionFrame, stopFrame, bp_i, breakpoints, proc, dbg, ret, relLog>>

\* ... the call itself raises: `target` is never assigned
CreateTargetRaises ==
    /\ v_pc = "target"
    /\ Leave("target_raise")
    /\ UNCHANGED <<sessionFrame, stopFrame, bp_i, breakpoints, proc, dbg, target,
                   ret, relLog>>

AfterRequest_EndOnInvalid(valid) == IF valid THEN "bps" ELSE "release"

\* where verify_line_nums goes on after a breakpoint request: the else branch
\* only logs a warning, the for loop goes on
AfterRequest(valid) == "bps"

\* bp = target.BreakpointCreateByLocation(source_file, line_number); bp.IsValid()
CreateBreakpoint(valid) ==
    /\ v_pc = "bps"
    /\ bp_i <= Len(line_numbers)
    /\ breakpoints' = IF valid THEN Append(breakpoints, line_numbers[bp_i])
                      ELSE breakpoints
    /\ bp_i' = bp_i + 1
    /\ v_pc' = AfterRequest(valid)
    /\ UNCHANGED <<sessionFrame, stopFrame, proc, dbg, target, fail, ret, relLog>>

\* an exception during breakpoint setup
CreateBreakpointRaises ==
    /\ v_pc = "bps"
    /\ bp_i <= Len(line_numbers)
    /\ Leave("bp_raise")
    /\ UNCHANGED <<sessionFrame, stopFrame, bp_i, breakpoints, proc, dbg, target,
                   ret, relLog>>

\* process = target.LaunchSimple(None, None, os.getcwd()): a valid process, which
\* (synchronous mode) has run to its first stop or to its exit
LaunchValid(state) ==
    /\ v_pc = "bps"
    /\ bp_i > Len(line_numbers)
    /\ proc' = state
    /\ v_pc' = "loop"
    /\ UNCHANGED <<sessionFrame, stopFrame, bp_i, breakpoints, dbg, target, fail,
                   ret, relLog>>

\* ... `if not process.IsValid(): return None`
LaunchInvalid ==
    /\ v_pc = "bps"
    /\ bp_i > Len(line_numbers)
    /\ proc' = "invalid"
    /\ Leave("launch_invalid")
    /\ UNCHANGED <<sessionFrame, stopFrame, bp_i, breakpoints, dbg, target, ret, relLog>>

\* ... LaunchSimple raises: `process` is never assigned
LaunchRaises ==
    /\ v_pc = "bps"
    /\ bp_i > Len(line_numbers)
    /\ Leave("launch_raise")
    /\ UNCHANGED <<sessionFrame, stopFrame, bp_i, breakpoints, proc, dbg, target,
                   ret, relLog>>

\* ... the launched program hangs before any stop: in synchronous mode
\* LaunchSimple does not return
LaunchNeverReturns ==
    /\ v_pc = "bps"
    /\ bp_i > Len(line_numbers)
    /\ proc' = "running"
    /\ v_pc' = "blocked"
    /\ UNCHANGED <<sessionFrame, stopFrame, bp_i, breakpoints, dbg, target, fail,
                   ret, relLog>>

VerifiedAfterStop_AnyHit(verified, bps, hits, line_number_hit) ==
    IF \E k \in DOMAIN bps : bps[k] \in hits
    THEN verified \cup {line_number_hit} ELSE verified

VerifiedAfterStop_RequestedLine(verified, bps, hits, line_number_hit) ==
    LET ks == {k \in DOMAIN bps : bps[k] \in hits}
    IN  IF ks = {} THEN verified ELSE verified \cup {bps[Min(ks)]}

\* for bp, line_number in breakpoints:
\*     if bp.GetHitCount() > 0 and line_number == line_number_hit:
\*         verified_line_nums.add(line_number); break
VerifiedAfterStop(verified, bps, hits, line_number_hit) ==
    LET ks == {k \in DOMAIN bps : bps[k] \in hits /\ bps[k] = line_number_hit}
    IN  IF ks = {} THEN verified ELSE verified \cup {bps[Min(ks)]}

\* one iteration of `while process.GetState() == eStateStopped`: the stop had the
\* given reason and frame line, the breakpoints in newhits have fired by now, and
\* process.Continue() runs the program to its next stop or to its exit
LoopIteration(reason, line, newhits, next) ==
    /\ v_pc = "loop"
    /\ proc = "stopped"
    /\ nstops < MaxStops
    /\ nstops' = nstops + 1
    /\ hit' = hit \cup newhits
    /\ IF reason = "breakpoint"
       THEN /\ verified_line_nums' =
                   VerifiedAfterStop(verified_line_nums, breakpoints, hit', line)
            /\ stoppedAt' = stoppedAt \cup {line}
            /\ qualified' = IF line \in Range(line_numbers) /\ line \in hit'
                            THEN qualified \cup {line} ELSE qualified
            /\ faithful' = (faithful /\ line \in hit')
       ELSE UNCHANGED <<verified_line_nums, stoppedAt, qualified, faithful>>
    /\ proc' = next
    /\ UNCHANGED <<sessionFrame, v_pc, bp_i, breakpoints, dbg, target, fail, ret, relLog>>

\* an iteration for a stop that is no breakpoint stop, after which the program
\* hangs: in synchronous mode process.Continue() does not return
ContinueNeverReturns ==
    /\ v_pc = "loop"
    /\ proc = "stopped"
    /\ nstops < MaxStops
    /\ nstops' = nstops + 1
    /\ proc' = "running"
    /\ v_pc' = "blocked"
    /\ UNCHANGED <<sessionFrame, stoppedAt, qualified, faithful, hit, verified_line_nums,
                   bp_i, breakpoints, dbg, target, fail, ret, relLog>>

\* an exception inside the stop/continue loop, the process still stopped
LoopRaises ==
    /\ v_pc = "loop"
    /\ proc = "stopped"
    /\ Leave("loop_raise")
    /\ UNCHANGED <<sessionFrame, stopFrame, bp_i, breakpoints, proc, dbg, target,
                   ret, relLog>>

\* the process is no longer stopped: `return sorted(list(verified_line_nums))`
LoopEnds ==
    /\ v_pc = "loop"
    /\ proc # "stopped"
    /\ Leave("")
    /\ UNCHANGED <<sessionFrame, stopFrame, bp_i, breakpoints, proc, dbg, target,
                   ret, relLog>>

\* whether the local name `process` / `target` of verify_line_nums has been assigned
\* when the call leaves at point f
ProcessBound(f) == f \notin {"target_raise", "target_invalid", "bp_raise", "launch_raise"}
TargetBound(f) == f # "target_raise"

\* process.IsValid(): the handle of a launched process, stopped or exited
ProcessValid(p) == p \in {"stopped", "exited"}

\* the body of both release routines once they are entered with the given
\* process handle (None when there is none) and target
CleanupOps(p, tgt) ==
    (IF ProcessValid(p) THEN <<"process.Kill", "process.Destroy">> ELSE <<>>)
    \o (IF tgt = "valid" THEN <<"target.DeleteAllBreakpoints", "debugger.DeleteTarget">>
        ELSE <<>>)
    \o <<"SBDebugger.Destroy">>

\* The release operations performed when the call leaves at point f.
\* utils: the finally block of _lldb_session, whose local `process` is always None.
\* gln: `finally: self._cleanup(debugger, target, process)`: evaluating an unbound
\*      local raises UnboundLocalError before _cleanup is entered.
ReleaseOps(im, f, p, tgt) ==
    IF im = "utils" THEN CleanupOps("none", tgt)
    ELSE IF ~TargetBound(f) \/ ~ProcessBound(f) THEN <<>>
    ELSE CleanupOps(p, tgt)

\* How the call ends when it leaves at point f.
\* utils: launch_invalid returns None, every other failure propagates (an invalid
\*        target as RuntimeError) through the with statement.
\* gln: `except Exception: return None`, then the finally block, whose
\*      UnboundLocalError replaces the pending return.
ReturnKind(im, f) ==
    IF f = "" THEN "list"
    ELSE IF im = "utils" THEN (IF f = "launch_invalid" THEN "None" ELSE "raise")
    ELSE IF ~TargetBound(f) \/ ~ProcessBound(f) THEN "raise"
    ELSE "None"

\* the release code runs and the call returns or raises
Release ==
    /\ v_pc = "release"
    /\ LET ops == ReleaseOps(impl, fail, proc, target)
           kind == ReturnKind(impl, fail)
       IN  /\ relLog' = ops
           /\ proc' = IF "process.Kill" \in Range(ops) THEN "killed" ELSE proc
           /\ target' = IF "debugger.DeleteTarget" \in Range(ops) THEN "deleted" ELSE target
           /\ dbg' = IF "SBDebugger.Destroy" \in Range(ops) THEN "destroyed" ELSE dbg
           /\ ret' = [kind |-> kind,
                      val |-> IF kind = "list" THEN SortedSeq(verified_line_nums) ELSE <<>>]
    /\ v_pc' = "done"
    /\ UNCHANGED <<sessionFrame, stopFrame, bp_i, breakpoints, fail>>


(***************************************************************************)
(* LineNumberExtractor.get_line_nums: the files of one binary.             *)
(* (utils.py and get_line_nums.py hold the same loop.)                     *)
(***************************************************************************)
MaxFiles == 2

Files == {"a.c", "b.c", "x.h"}

\* the candidate lines the line table gives each file of the model
CandidatesOf(file) ==
    CASE file = "a.c" -> <<5, 6>>
      [] file = "b.c" -> <<9>>
      [] OTHER -> <<5>>

\* line_numbers_by_file in the insertion order of the dict: distinct files
FileOrders ==
    {s \in UNION {[1..n -> Files] : n \in 0..MaxFiles} :
        \A j, k \in DOMAIN s : j # k => s[j] # s[k]}

Entry(file, lines) == [file |-> file, lines |-> lines]
Keys(m) == {m[k].file : k \in DOMAIN m}

FilesIdle ==
    /\ f_pc = "idle"
    /\ by_file = <<>>
    /\ source_files = {}
    /\ f_i = 1
    /\ verified_line_numbers = <<>>
    /\ f_ret = <<>>
    /\ f_out = <<>>
    /\ f_val = <<>>
    /\ f_err = ""

FilesInit ==
    /\ f_pc = "start"
    /\ \E order \in FileOrders :
          by_file = [k \in DOMAIN order |-> Entry(order[k], CandidatesOf(order[k]))]
    /\ source_files \in SUBSET Files
    /\ f_i = 1
    /\ verified_line_numbers = <<>>
    /\ f_ret = <<>>
    /\ f_out = [k \in DOMAIN by_file |-> ""]
    /\ f_val = [k \in DOMAIN by_file |-> <<>>]
    /\ f_err = ""

filesInput == <<by_file, source_files, impl>>

\* get_source_files, run_dwarfdump, parse_debug_line, get_line_numbers_by_file
\* all return; `verified_line_numbers = {}`
DumpSucceeds ==
    /\ f_pc = "start"
    /\ f_pc' = "loop"
    /\ verified_line_numbers' = <<>>
    /\ UNCHANGED <<filesInput, f_i, f_ret, f_out, f_val, f_err>>

\* the dump utility fails: `except Exception: return {}`
DumpFails ==
    /\ f_pc = "start"
    /\ f_err' = "dump"
    /\ f_ret' = <<>>
    /\ f_pc' = "done"
    /\ UNCHANGED <<filesInput, f_i, verified_line_numbers, f_out, f_val>>

IsCompileUnit_Any(file, units) == TRUE

\* `source_file in source_files`
IsCompileUnit(file, units) == file \in units

\* `if source_file in source_files` is false: the file is not verified
SkipFile ==
    /\ f_pc = "loop"
    /\ f_i <= Len(by_file)
    /\ ~IsCompileUnit(by_file[f_i].file, source_files)
    /\ f_out' = [f_out EXCEPT ![f_i] = "skip"]
    /\ f_i' = f_i + 1
    /\ UNCHANGED <<filesInput, f_pc, verified_line_numbers, f_ret, f_val, f_err>>

StoreVerified_Always(m, file, verified_lines) == Append(m, Entry(file, verified_lines))

\* `if verified_lines: verified_line_numbers[source_file] = verified_lines`
\* (None and the empty list are falsy)
StoreVerified(m, file, verified_lines) ==
    IF verified_lines # <<>> THEN Append(m, Entry(file, verified_lines)) ELSE m

\* verify_line_nums is called for a compile unit; it leaves at point f (or "")
\* having verified the lines S
VerifyFile(f, S) ==
    /\ f_pc = "loop"
    /\ f_i <= Len(by_file)
    /\ IsCompileUnit(by_file[f_i].file, source_files)
    /\ S \subseteq Range(by_file[f_i].lines)
    /\ f # "" => S = {}
    /\ LET kind == ReturnKind(impl, f)
           verified_lines == IF kind = "list" THEN SortedSeq(S) ELSE <<>>
       IN  /\ f_out' = [f_out EXCEPT ![f_i] = kind]
           /\ f_val' = [f_val EXCEPT ![f_i] = verified_lines]
           /\ IF kind = "raise"
              THEN \* `except Exception as e: ... return {}`
                   /\ f_err' = "verify"
                   /\ f_ret' = <<>>
                   /\ f_pc' = "done"
                   /\ UNCHANGED <<f_i, verified_line_numbers>>
              ELSE /\ verified_line_numbers' =
                         StoreVerified(verified_line_numbers, by_file[f_i].file,
                                       verified_lines)
                   /\ f_i' = f_i + 1
                   /\ UNCHANGED <<f_pc, f_ret, f_err>>
    /\ UNCHANGED filesInput

\* `return verified_line_numbers`
ReturnMap ==
    /\ f_pc = "loop"
    /\ f_i > Len(by_file)
    /\ f_ret' = verified_line_numbers
    /\ f_pc' = "done"
    /\ UNCHANGED <<filesInput, f_i, verified_line_numbers, f_out, f_val, f_err>>


(***************************************************************************)
(* Binary.get_line_numbers and BinaryAnalyzer.get_line_numbers             *)
(***************************************************************************)
\* the (opt, debug) pairs in sweep order
PairSeq ==
    [k \in 1..(NumOpt * NumDbg) |->
        <<opt_levels[((k - 1) \div NumDbg) + 1], dbg_levels[((k - 1) % NumDbg) + 1]>>]

\* the retained lists a sweep can leave: pairs in sweep order, distinct hashes
DistinctHashes(bs) == \A j, k \in DOMAIN bs : j # k => bs[j].hash_value # bs[k].hash_value

RetainedLists ==
    UNION {{bs \in {[j \in 1..Cardinality(K) |->
                        LET k == SortedSeq(K)[j]
                        IN  NewBinary(PairSeq[k][1], PairSeq[k][2], a[k])] :
                      a \in [K -> Hashes]} :
               DistinctHashes(bs)} :
           K \in {X \in SUBSET DOMAIN PairSeq : Cardinality(X) <= NumHash}}

\* why the verification of a binary can fail as a whole
WorkerFailures == {"lldb_load", "dwarfdump", "verify"}
\* the maps a get_line_nums call that does not fail returns in the model
WorkerMaps == {<<>>, <<Entry("a.c", <<5>>)>>, <<Entry("a.c", <<5, 6>>), Entry("b.c", <<9>>)>>}

LinesIdle ==
    /\ l_pc = "idle"
    /\ results = <<>>
    /\ worker_fail = <<>>
    /\ worker_map = <<>>
    /\ before = <<>>

LineNumbersAfter_KeepPartial(failure, m) == m

\* Binary.get_line_numbers: LineNumberExtractor() raising (the debugger interface
\* cannot be loaded) is caught and gives {}; get_line_nums catches every failure
\* of its own and returns {}
LineNumbersAfter(failure, m) ==
    IF failure = "lldb_load" THEN <<>>
    ELSE IF failure \in {"dwarfdump", "verify"} THEN <<>>
    ELSE m

\* executor.map(self._get_line_numbers, self.binaries): one task per binary
get_line_numbers_begin ==
    /\ l_pc = "ready"
    /\ before' = binaries
    /\ results' = binaries
    /\ worker_fail' = [k \in DOMAIN binaries |-> "pending"]
    /\ worker_map' = [k \in DOMAIN binaries |-> <<>>]
    /\ l_pc' = "mapping"
    /\ UNCHANGED binaries

\* a pool worker runs _get_line_numbers on its copy of binary k and returns it
Worker(k, failure, m) ==
    /\ l_pc = "mapping"
    /\ k \in DOMAIN results
    /\ worker_fail[k] = "pending"
    \* nothing has been verified yet when the interface or the dump utility fails
    /\ failure \in {"lldb_load", "dwarfdump"} => m = <<>>
    /\ worker_fail' = [worker_fail EXCEPT ![k] = failure]
    /\ worker_map' = [worker_map EXCEPT ![k] = m]
    /\ results' = [results EXCEPT ![k] =
                      [results[k] EXCEPT !.line_numbers = LineNumbersAfter(failure, m)]]
    /\ UNCHANGED <<l_pc, before, binaries>>

\* `self.binaries = list(executor.map(...))`: the results in submission order
get_line_numbers_join ==
    /\ l_pc = "mapping"
    /\ \A k \in DOMAIN results : worker_fail[k] # "pending"
    /\ binaries' = results
    /\ l_pc' = "done"
    /\ UNCHANGED <<results, worker_fail, worker_map, before>>

\* the map a verification that finds lines gives a binary in the sweep machine
VerifiedMap == <<Entry("a.c", <<5>>)>>

\* the call of BinaryAnalyzer.get_line_numbers that run_analysis makes after
\* the sweep, as one step: the binaries of `verified` come back with their map;
\* for the others get_line_nums failed (the except clause returns {})
get_line_numbers(verified) ==
    /\ gv_pc = "returned"
    /\ l_pc = "idle"
    /\ l_pc' = "done"
    /\ binaries' = [k \in DOMAIN binaries |->
                       [binaries[k] EXCEPT !.line_numbers =
                           LineNumbersAfter(IF k \in verified THEN "" ELSE "verify",
                                            VerifiedMap)]]
    /\ UNCHANGED <<gv_pc, oi, di, file_hashes, disk, invoked>>
    /\ UNCHANGED <<results, worker_fail, worker_map, before>>


(***************************************************************************)
(* BinaryAnalyzer._find_issues_type1_2: the classification of debug values *)
(***************************************************************************)
MaxValues == 2

\* the observable part of a DebugValue: name, error_message, is_pointer(),
\* is_known_error()
DebugValues ==
    [name : {"p"}, error_message : {"", "wild read"}, pointer : BOOLEAN, known : BOOLEAN]

\* what the nested loops visit: (source_file, line, debug_value)
Visits == [source_file : {"a.c"}, line : {5}, value : DebugValues]

VisitLists == UNION {[1..n -> Visits] : n \in 0..MaxValues}

Issue(visit) ==
    [binary |-> "bin", source_file |-> visit.source_file, line |-> visit.line,
     error_message |-> <<visit.value.name, visit.value.error_message>>]

\* `if debug_value.error_message and not debug_value.is_known_error()`
UnknownErrorRule(v) == v.error_message # "" /\ ~v.known

PointerErrorRule_UnknownOnly(v) == v.pointer /\ v.error_message # "" /\ ~v.known

\* `if debug_value.is_pointer() and debug_value.error_message`
PointerErrorRule(v) == v.pointer /\ v.error_message # ""

IssuesFor_FirstMatch(visit) ==
    IF UnknownErrorRule(visit.value) \/ PointerErrorRule(visit.value)
    THEN <<Issue(visit)>> ELSE <<>>

\* the issues one debug value appends to binary_issues
IssuesFor(visit) ==
    (IF UnknownErrorRule(visit.value) THEN <<Issue(visit)>> ELSE <<>>)
    \o (IF PointerErrorRule(visit.value) THEN <<Issue(visit)>> ELSE <<>>)

NoValue == [name |-> "", error_message |-> "", pointer |-> FALSE, known |-> FALSE]

IssuesIdle ==
    /\ i_pc = "idle"
    /\ todo = <<>>
    /\ binary_issues = <<>>
    /\ last = NoValue
    /\ lastAdded = 0

IssuesInit ==
    /\ i_pc = "loop"
    /\ todo \in VisitLists
    /\ binary_issues = <<>>
    /\ last = NoValue
    /\ lastAdded = 0

\* the body of `for debug_value in debug_values` for the next value
ClassifyValue ==
    /\ i_pc = "loop"
    /\ todo # <<>>
    /\ binary_issues' = binary_issues \o IssuesFor(Head(todo))
    /\ last' = Head(todo).value
    /\ lastAdded' = Len(binary_issues') - Len(binary_issues)
    /\ todo' = Tail(todo)
    /\ UNCHANGED i_pc

\* `return binary_issues`
ReturnIssues ==
    /\ i_pc = "loop"
    /\ todo = <<>>
    /\ i_pc' = "done"
    /\ UNCHANGED <<todo, binary_issues, last, lastAdded>>


(***************************************************************************)
(* BinaryAnalyzer.find_issues_type1_2 and _write_results                   *)
(***************************************************************************)
\* Binary.file_name stands for the artifact's name in issues and evidence
file_name(b) == ArtifactOf(b)

\* what the nested loops of _find_issues_type1_2 visit, in their order: the
\* files of binary.line_numbers, the verified lines of each, the values at each
VisitOrder ==
    <<[source_file |-> "a.c", line |-> 5, name |-> "p"],
      [source_file |-> "a.c", line |-> 6, name |-> "p"],
      [source_file |-> "b.c", line |-> 2, name |-> "p"],
      [source_file |-> "b.c", line |-> 2, name |-> "q"]>>

IssueAt(b, visit) ==
    [binary |-> file_name(b), source_file |-> visit.source_file, line |-> visit.line,
     error_message |-> <<visit.name, "wild read">>]

RECURSIVE AppendedIn(_, _, _)
\* binary_issues after the visits from position j on, when the visits of S
\* append an issue
AppendedIn(b, S, j) ==
    IF j > Len(VisitOrder) THEN <<>>
    ELSE (IF j \in S THEN <<IssueAt(b, VisitOrder[j])>> ELSE <<>>) \o AppendedIn(b, S, j + 1)

\* the lists binary_issues a worker can have built for binary b
\* (no issue; one issue; issues in two files and for two values of one line)
FoundLists(b) == {AppendedIn(b, S, 1) : S \in {{}, {1}, {1, 3, 4}}}

RECURSIVE Flatten(_)
\* `[issue for binary_issues in results for issue in binary_issues]`
Flatten(rs) == IF rs = <<>> THEN <<>> ELSE Head(rs) \o Flatten(Tail(rs))

MapResults_AsCompleted(found, finished) == [j \in DOMAIN finished |-> found[finished[j]]]

\* the list pool.map returns: the workers' results in the order of self.binaries
MapResults(found, finished) == found

ShouldWrite_Always(found) == TRUE

\* `if issues:`
ShouldWrite(found) == found # <<>>

\* _write_results: one annotated source copy per source file with issues, one
\* copy of every binary named by an issue that is still in self.binaries
WriteResults(found, bs) ==
    {[kind |-> "source", name |-> f,
      comment |-> SelectSeq(found, LAMBDA i : i.source_file = f)] :
        f \in {found[j].source_file : j \in DOMAIN found}}
    \cup
    {[kind |-> "binary", name |-> n, comment |-> <<>>] :
        n \in {found[j].binary : j \in DOMAIN found}
               \cap {file_name(bs[k]) : k \in DOMAIN bs}}

DetectIdle ==
    /\ d_pc = "idle"
    /\ d_state = <<>>
    /\ d_found = <<>>
    /\ issues = <<>>
    /\ evidence = {}
    /\ d_out = ""
    /\ d_order = <<>>

\* `pool.map(self._find_issues_type1_2, self.binaries)`: one task per binary
find_issues_type1_2_begin ==
    /\ d_pc = "ready"
    /\ d_state' = [k \in DOMAIN binaries |-> "pending"]
    /\ d_found' = [k \in DOMAIN binaries |-> <<>>]
    /\ d_pc' = "mapping"
    /\ d_order' = <<>>
    /\ UNCHANGED <<issues, evidence, d_out>>

\* a pool worker runs _find_issues_type1_2 on binary k: it returns binary_issues,
\* or get_debug_values raises at some line and the exception leaves the worker
\* with the issues appended so far
find_issues_worker(k, raises, found) ==
    /\ d_pc = "mapping"
    /\ d_state[k] = "pending"
    /\ d_state' = [d_state EXCEPT ![k] = IF raises THEN "raised" ELSE "returned"]
    /\ d_found' = [d_found EXCEPT ![k] = found]
    /\ d_order' = Append(d_order, k)
    /\ UNCHANGED <<d_pc, issues, evidence, d_out>>

\* pool.map re-raises a worker's exception once every task has ended; nothing
\* catches it in find_issues_type1_2
find_issues_type1_2_raises ==
    /\ d_pc = "mapping"
    /\ \A k \in DOMAIN d_state : d_state[k] # "pending"
    /\ \E k \in DOMAIN d_state : d_state[k] = "raised"
    /\ d_pc' = "raised"
    /\ UNCHANGED <<d_state, d_found, issues, evidence, d_out, d_order>>

\* every worker returned: flatten, then write the evidence or report no issues
find_issues_type1_2_finish ==
    /\ d_pc = "mapping"
    /\ \A k \in DOMAIN d_state : d_state[k] = "returned"
    /\ issues' = Flatten(MapResults(d_found, d_order))
    /\ IF ShouldWrite(issues')
       THEN /\ evidence' = evidence \cup WriteResults(issues', binaries)
            /\ d_out' = "written"
       ELSE /\ evidence' = evidence
            /\ d_out' = "no_issues"
    /\ d_pc' = "done"
    /\ UNCHANGED <<d_state, d_found, d_order>>


(***************************************************************************)
(* The executors that verify several binaries:                             *)
(* BinaryAnalyzer.get_line_numbers (ProcessPoolExecutor) and main of       *)
(* get_line_nums.py (ThreadPoolExecutor)                                   *)
(***************************************************************************)
MaxTasks == 3
PoolWorkers == 2

EntryPoints == {"analyzer", "main"}

\* the OS process in which pool worker w runs its tasks: a child process of its
\* own under ProcessPoolExecutor, the calling process (0) under ThreadPoolExecutor
ProcessOf(ep, w) == IF ep = "analyzer" THEN w ELSE 0

\* the binaries whose verification is in progress in OS process p
VerifyingIn(p) ==
    {k \in DOMAIN task_state :
        task_state[k] = "running" /\ ProcessOf(entry, task_worker[k]) = p}

PoolIdle ==
    /\ entry = "analyzer"
    /\ pool_pc = "idle"
    /\ task_state = <<>>
    /\ task_worker = <<>>

\* executor.map(self._get_line_numbers, self.binaries), or one
\* executor.submit(process_binary, extractor, binary_file) per binary file
executor_submit(n) ==
    /\ pool_pc = "ready"
    /\ task_state' = [k \in 1..n |-> "queued"]
    /\ task_worker' = [k \in 1..n |-> 0]
    /\ pool_pc' = "submitted"
    /\ UNCHANGED entry

\* an idle pool worker takes the oldest queued task and starts the verification
worker_takes(w) ==
    /\ pool_pc = "submitted"
    /\ \A j \in DOMAIN task_state : ~(task_state[j] = "running" /\ task_worker[j] = w)
    /\ \E k \in DOMAIN task_state :
          /\ task_state[k] = "queued"
          /\ \A j \in 1..(k - 1) : task_state[j] # "queued"
          /\ task_state' = [task_state EXCEPT ![k] = "running"]
          /\ task_worker' = [task_worker EXCEPT ![k] = w]
    /\ UNCHANGED <<entry, pool_pc>>

\* get_line_nums has returned for binary k
worker_returns(k) ==
    /\ pool_pc = "submitted"
    /\ task_state[k] = "running"
    /\ task_state' = [task_state EXCEPT ![k] = "done"]
    /\ UNCHANGED <<entry, pool_pc, task_worker>>

\* every result has been collected and the `with` block of the executor is left
executor_shutdown ==
    /\ pool_pc = "submitted"
    /\ \A k \in DOMAIN task_state : task_state[k] = "done"
    /\ pool_pc' = "done"
    /\ UNCHANGED <<entry, task_state, task_worker>>


(***************************************************************************)
(* ParallelSourceAnalysis.run_parallel_analysis                            *)
(***************************************************************************)
MaxSources == 4
FanWorkers == 2

\* the call queue of a ProcessPoolExecutor holds max_workers + 1 work items; a
\* future whose item is in it is marked running and can no longer be cancelled
CallQueueSize == FanWorkers + 1

InState(st) == {k \in DOMAIN src_state : src_state[k] = st}

FanIdle ==
    /\ fan_pc = "idle"
    /\ src_state = <<>>
    /\ it_pos = 1

\* executor.map submits one future per source file before any result is asked
\* for; the executor moves the oldest ones into its call queue
run_parallel_analysis_begin(n) ==
    /\ fan_pc = "ready"
    /\ src_state' = [k \in 1..n |-> IF k <= CallQueueSize THEN "queued" ELSE "pending"]
    /\ it_pos' = 1
    /\ fan_pc' = "collecting"

\* the executor moves the oldest pending future into the call queue
queue_call ==
    /\ fan_pc \in {"collecting", "unwinding"}
    /\ Cardinality(InState("queued")) < CallQueueSize
    /\ InState("pending") # {}
    /\ src_state' = [src_state EXCEPT ![Min(InState("pending"))] = "queued"]
    /\ UNCHANGED <<fan_pc, it_pos>>

\* an idle worker process takes the oldest queued call: analyze_single_source starts
analyze_single_source_starts ==
    /\ fan_pc \in {"collecting", "unwinding"}
    /\ Cardinality(InState("running")) < FanWorkers
    /\ InState("queued") # {}
    /\ src_state' = [src_state EXCEPT ![Min(InState("queued"))] = "running"]
    /\ UNCHANGED <<fan_pc, it_pos>>

\* analyze_single_source returns the source file, or run_analysis raised and the
\* exception leaves it after the finally clause
analyze_single_source_ends(k, raises) ==
    /\ fan_pc \in {"collecting", "unwinding"}
    /\ src_state[k] = "running"
    /\ src_state' = [src_state EXCEPT ![k] = IF raises THEN "failed" ELSE "done"]
    /\ UNCHANGED <<fan_pc, it_pos>>

\* list(executor.map(...)) takes the next result, in submission order
result_taken ==
    /\ fan_pc = "collecting"
    /\ it_pos \in DOMAIN src_state
    /\ src_state[it_pos] = "done"
    /\ it_pos' = it_pos + 1
    /\ fan_pc' = IF it_pos = Len(src_state) THEN "returned" ELSE "collecting"
    /\ UNCHANGED src_state

\* the next result is an exception: the result iterator cancels every future
\* that is still pending and the exception propagates out of list(...)
result_raises ==
    /\ fan_pc = "collecting"
    /\ it_pos \in DOMAIN src_state
    /\ src_state[it_pos] = "failed"
    /\ src_state' = [k \in DOMAIN src_state |->
                        IF src_state[k] = "pending" THEN "cancelled" ELSE src_state[k]]
    /\ fan_pc' = "unwinding"
    /\ UNCHANGED it_pos

\* the `with` block is left: shutdown(wait=True) returns once no call is queued
\* or running, and run_parallel_analysis raises
run_parallel_analysis_raises ==
    /\ fan_pc = "unwinding"
    /\ InState("queued") \cup InState("running") \cup InState("pending") = {}
    /\ fan_pc' = "raised"
    /\ UNCHANGED <<src_state, it_pos>>


(***************************************************************************)
(* ParallelSourceAnalysis.analyze_single_source: run_analysis inside its   *)
(* temporary directory, then cleanup in the finally clause                 *)
(***************************************************************************)
NumPairs == NumOpt * NumDbg

PipeStart ==
    /\ a_k = 1
    /\ a_bins = <<>>
    /\ a_exc = FALSE
    /\ ver = <<>>
    /\ det = <<>>
    /\ map_writes = <<>>
    /\ map_writers = <<>>
    /\ artifacts = {}
    /\ a_dir = TRUE
    /\ copied = {}
    /\ copied_live = {}
    /\ leftover = 0

PipeIdle == a_pc = "idle" /\ PipeStart

AllDone_NoBarrier(st, ended) == TRUE

\* list(executor.map(...)) and pool.map(...) return when every task has ended
AllDone(st, ended) == \A k \in DOMAIN st : st[k] \in ended

WritesIn_TryAndExcept(failed) == IF failed THEN <<"try", "except">> ELSE <<"try">>

\* Binary.get_line_numbers: the assignment in the try block when get_line_nums
\* returned, the one in the except clause when the extractor raised before it
WritesIn(failed) == IF failed THEN <<"except">> ELSE <<"try">>

TemporaryDirectoryCleanup_KeepsFiles(entries) == entries

\* leaving `with tempfile.TemporaryDirectory()`: the directory is removed with
\* everything in it
TemporaryDirectoryCleanup(entries) == {}

\* generate_variants compiles the next pair: the binary is retained, or its
\* hash is known (its artifact stays on disk), or the build failed, or the
\* invocation raises
run_analysis_compile(outcome) ==
    /\ a_pc = "sweep"
    /\ a_k <= NumPairs
    /\ outcome = "kept" => Len(a_bins) < NumHash
    /\ outcome = "duplicate" => a_bins # <<>>
    /\ leftover' = IF outcome = "duplicate" THEN leftover + 1 ELSE leftover
    /\ a_k' = a_k + 1
    /\ a_bins' = IF outcome = "kept" THEN Append(a_bins, a_k) ELSE a_bins
    /\ artifacts' = IF outcome = "kept" THEN artifacts \cup {Len(a_bins) + 1} ELSE artifacts
    /\ a_exc' = (outcome = "raise")
    /\ a_pc' = IF outcome = "raise" THEN "exit_with" ELSE "sweep"
    /\ UNCHANGED <<ver, det, map_writes, map_writers, a_dir, copied, copied_live>>

\* generate_variants has returned; get_line_numbers submits one task per binary
run_analysis_get_line_numbers ==
    /\ a_pc = "sweep"
    /\ a_k > NumPairs
    /\ ver' = [k \in DOMAIN a_bins |-> "waiting"]
    /\ det' = [k \in DOMAIN a_bins |-> "waiting"]
    /\ map_writes' = [k \in DOMAIN a_bins |-> <<>>]
    /\ map_writers' = [k \in DOMAIN a_bins |-> {}]
    /\ a_pc' = "verify"
    /\ UNCHANGED <<a_k, a_bins, a_exc, artifacts, a_dir, copied, copied_live, leftover>>

\* a pool worker starts _get_line_numbers on binary k
verification_starts(k) ==
    /\ a_pc = "verify"
    /\ ver[k] = "waiting"
    /\ ver' = [ver EXCEPT ![k] = "running"]
    /\ UNCHANGED <<a_pc, a_k, a_bins, a_exc, det, map_writes, map_writers, artifacts,
                   a_dir, copied, copied_live, leftover>>

\* Binary.get_line_numbers of task k assigns the map of binary k and returns
verification_ends(k, failed) ==
    /\ a_pc = "verify"
    /\ ver[k] = "running"
    /\ ver' = [ver EXCEPT ![k] = "done"]
    /\ map_writes' = [map_writes EXCEPT ![k] = @ \o WritesIn(failed)]
    /\ map_writers' = [map_writers EXCEPT ![k] = @ \cup {k}]
    /\ UNCHANGED <<a_pc, a_k, a_bins, a_exc, det, artifacts, a_dir, copied, copied_live, leftover>>

\* get_line_numbers has returned; find_issues_type1_2 hands the binaries to its pool
run_analysis_find_issues ==
    /\ a_pc = "verify"
    /\ AllDone(ver, {"done"})
    /\ a_pc' = "detect"
    /\ UNCHANGED <<a_k, a_bins, a_exc, ver, det, map_writes, map_writers, artifacts,
                   a_dir, copied, copied_live, leftover>>

\* a pool worker starts _find_issues_type1_2 on binary k and reads its map
detection_starts(k) ==
    /\ a_pc = "detect"
    /\ det[k] = "waiting"
    /\ det' = [det EXCEPT ![k] = "running"]
    /\ UNCHANGED <<a_pc, a_k, a_bins, a_exc, ver, map_writes, map_writers, artifacts,
                   a_dir, copied, copied_live, leftover>>

\* ... and returns its issues (none or some), or raises
detection_ends(k, outcome) ==
    /\ a_pc = "detect"
    /\ det[k] = "running"
    /\ det' = [det EXCEPT ![k] = outcome]
    /\ UNCHANGED <<a_pc, a_k, a_bins, a_exc, ver, map_writes, map_writers, artifacts,
                   a_dir, copied, copied_live, leftover>>

\* pool.map has returned or raised: the issues are flattened and written, or
\* there are none, or the exception of a worker propagates
find_issues_joined ==
    /\ a_pc = "detect"
    /\ AllDone(det, {"none", "issues", "raised"})
    /\ a_exc' = (\E k \in DOMAIN det : det[k] = "raised")
    /\ a_pc' = IF a_exc' THEN "exit_with"
               ELSE IF \E k \in DOMAIN det : det[k] = "issues" THEN "write"
               ELSE "exit_with"
    /\ UNCHANGED <<a_k, a_bins, ver, det, map_writes, map_writers, artifacts, a_dir,
                   copied, copied_live, leftover>>

\* _write_results copies every binary named by an issue from its artifact path;
\* when a copy or the annotation raises, the binaries of `done` were copied
write_results(done, raises) ==
    /\ a_pc = "write"
    /\ done \subseteq {k \in DOMAIN det : det[k] = "issues"}
    /\ raises <=> done # {k \in DOMAIN det : det[k] = "issues"}
    /\ copied' = done
    /\ copied_live' = copied' \cap artifacts
    /\ a_exc' = raises
    /\ a_pc' = "exit_with"
    /\ UNCHANGED <<a_k, a_bins, ver, det, map_writes, map_writers, artifacts, a_dir,
                   leftover>>

\* the `with tempfile.TemporaryDirectory()` block is left, normally or by an
\* exception: the directory and the artifacts in it are deleted
run_analysis_exit ==
    /\ a_pc = "exit_with"
    /\ artifacts' = TemporaryDirectoryCleanup(artifacts)
    /\ leftover' = Cardinality(TemporaryDirectoryCleanup(1..leftover))
    /\ a_dir' = FALSE
    /\ a_pc' = "cleanup"
    /\ UNCHANGED <<a_k, a_bins, a_exc, ver, det, map_writes, map_writers, copied,
                   copied_live>>

\* `finally: analysis.cleanup()`: BinaryAnalyzer.cleanup
analysis_cleanup ==
    /\ a_pc = "cleanup"
    /\ artifacts' = artifacts \ DOMAIN a_bins
    /\ a_bins' = <<>>
    /\ a_dir' = (a_dir /\ ~RemoveOutputDir(a_dir, artifacts' \cup 1..leftover))
    /\ a_pc' = "end"
    /\ UNCHANGED <<a_k, a_exc, ver, det, map_writes, map_writers, copied, copied_live,
                   leftover>>


(***************************************************************************)
(* get_line_numbers_by_file (utils.py and get_line_nums.py hold the same   *)
(* function): the fold of the parsed rows into candidate lines per file    *)
(***************************************************************************)
MaxRows == 2

\* a path is the sequence of its components; "" is the empty sequence
Paths == {<<"a.c">>, <<"src", "a.c">>, <<"x.h">>}
\* os.path.basename
Basename(p) == IF p = <<>> THEN "" ELSE p[Len(p)]

\* a file table entry: file_names[i] was declared, with or without a name line
TableEntries == {[named |-> FALSE, name |-> <<>>]} \cup {[named |-> TRUE, name |-> p] : p \in Paths}
FileIndices == {1, 2}
FileTables == UNION {[I -> TableEntries] : I \in SUBSET FileIndices}

\* the flag text of a row, as its tokens
FlagTexts == {<<>>, <<"is_stmt">>, <<"is_stmt", "prologue_end">>}
Rows == [file : FileIndices \cup {3}, line : {7, 10}, flags : FlagTexts]
RowLists == UNION {[1..n -> Rows] : n \in 0..MaxRows}

\* file_table.get(entry['file'], {}).get('name', '')
NameOf(table, idx) ==
    IF idx \in DOMAIN table /\ table[idx].named THEN table[idx].name ELSE <<>>

IsStmt_Always(flags) == TRUE

\* 'is_stmt' in entry['flags']
IsStmt(flags) == \E j \in DOMAIN flags : flags[j] = "is_stmt"

\* the body of `for entry in line_info`, on the dict built so far
FoldRow(acc, table, row) ==
    LET name == Basename(NameOf(table, row.file))
    IN  IF name # "" /\ IsStmt(row.flags)
        THEN IF \E j \in DOMAIN acc : acc[j].file = name
             THEN [j \in DOMAIN acc |->
                     IF acc[j].file = name
                     THEN [acc[j] EXCEPT !.lines = @ \cup {row.line}]
                     ELSE acc[j]]
             ELSE Append(acc, [file |-> name, lines |-> {row.line}])
        ELSE acc

FoldIdle ==
    /\ g_pc = "idle"
    /\ file_table = <<>>
    /\ line_info = <<>>
    /\ g_i = 1
    /\ line_numbers_by_file = <<>>
    /\ g_ret = <<>>

FoldInit ==
    /\ g_pc = "loop"
    /\ file_table \in FileTables
    /\ line_info \in RowLists
    /\ g_i = 1
    /\ line_numbers_by_file = <<>>
    /\ g_ret = <<>>

\* one iteration of `for entry in line_info`
fold_entry ==
    /\ g_pc = "loop"
    /\ g_i <= Len(line_info)
    /\ line_numbers_by_file' = FoldRow(line_numbers_by_file, file_table, line_info[g_i])
    /\ g_i' = g_i + 1
    /\ UNCHANGED <<g_pc, file_table, line_info, g_ret>>

\* `return {file: sorted(lines) for file, lines in line_numbers_by_file.items()}`
get_line_numbers_by_file_returns ==
    /\ g_pc = "loop"
    /\ g_i > Len(line_info)
    /\ g_ret' = [j \in DOMAIN line_numbers_by_file |->
                    Entry(line_numbers_by_file[j].file,
                          SortedSeq(line_numbers_by_file[j].lines))]
    /\ g_pc' = "done"
    /\ UNCHANGED <<file_table, line_info, g_i, line_numbers_by_file>>


(***************************************************************************)
(* parse_debug_line (utils.py and get_line_nums.py hold the same code):    *)
(* the scan of the dump text into a file table and a list of rows          *)
(***************************************************************************)
MaxDumpLines == 4
MaxCalls == 2

\* the lines of a dump, by what the tests of the loop body see in them
DumpLine(kind, idx, path, line, flags) ==
    [kind |-> kind, idx |-> idx, path |-> path, line |-> line, flags |-> flags]
\* `file_names[  i]:`
Declaration(i) == DumpLine("file_names", i, <<>>, 0, <<>>)
\* `name: "<path>"`
NameLine(p) == DumpLine("name", 0, p, 0, <<>>)
\* `dir_index: <n>`
DirIndexLine(n) == DumpLine("dir_index", n, <<>>, 0, <<>>)
\* `Address  Line  Column  File  ISA Discriminator Flags`
AddressHeader == DumpLine("Address", 0, <<>>, 0, <<>>)
\* `0x<addr> <line> <col> <file> <isa> <discriminator> <flags>`
AddressRow(f, l, flags) == DumpLine("row", f, <<>>, l, flags)
\* any other line (blank, `mod_time:`, `length:`, the dashes under the header)
OtherLine == DumpLine("other", 0, <<>>, 0, <<>>)

DumpLines ==
    {Declaration(1), Declaration(2), NameLine(<<"a.c">>), NameLine(<<"x.h">>),
     DirIndexLine(0), AddressHeader, AddressRow(1, 7, <<"is_stmt">>),
     AddressRow(2, 10, <<>>), OtherLine}
Dumps == UNION {[1..n -> DumpLines] : n \in 1..MaxDumpLines}

\* `file_table[current_file] = {}`
EmptyEntry == [named |-> FALSE, name |-> <<>>, has_dir |-> FALSE, dir_index |-> 0]
Put_KeepFirst(d, k, v) == [j \in DOMAIN d \cup {k} |-> IF j \in DOMAIN d THEN d[j] ELSE v]

\* the dict d with d[k] = v
Put(d, k, v) == [j \in DOMAIN d \cup {k} |-> IF j = k THEN v ELSE d[j]]

\* the dict appended to line_info for an address row; flags.strip() leaves
\* the tokens of the flag text
LineTableRow(l) == [file |-> l.idx, line |-> l.line, flags |-> l.flags]

ScanStateAtEntry_Kept(previous) == previous

\* `parsing_file_table = False` before the loop
ScanStateAtEntry(previous) == FALSE

ScanIdle ==
    /\ s_pc = "idle"
    /\ output = <<>>
    /\ s_i = 1
    /\ s_file_table = <<>>
    /\ s_line_info = <<>>
    /\ current_file = 0
    /\ parsing_file_table = FALSE
    /\ recorded_at = <<>>
    /\ s_call = 0
    /\ s_self = 0
    /\ s_first = <<>>
    /\ s_ret = <<>>

ScanInit ==
    /\ s_pc = "ready"
    /\ output \in Dumps
    /\ s_i = 1
    /\ s_file_table = <<>>
    /\ s_line_info = <<>>
    /\ current_file = 0
    /\ parsing_file_table = FALSE
    /\ recorded_at = <<>>
    /\ s_call = 0
    /\ s_self = 0
    /\ s_first = <<>>
    /\ s_ret = <<>>

\* a call of parse_debug_line on extractor e with the same text: the locals
\* are created anew
parse_debug_line_begin(e) ==
    /\ s_pc \in {"ready", "returned"}
    /\ s_call < MaxCalls
    /\ s_call = 0 => e = 1
    /\ s_call' = s_call + 1
    /\ s_self' = e
    /\ s_file_table' = <<>>
    /\ s_line_info' = <<>>
    /\ current_file' = 0
    /\ parsing_file_table' = ScanStateAtEntry(parsing_file_table)
    /\ recorded_at' = <<>>
    /\ s_i' = 1
    /\ s_pc' = "scan"
    /\ UNCHANGED <<output, s_first, s_ret>>

ScanStep(kinds) ==
    /\ s_pc = "scan"
    /\ s_i <= Len(output)
    /\ output[s_i].kind \in kinds
    /\ s_i' = s_i + 1
    /\ UNCHANGED <<s_pc, output, s_call, s_self, s_first, s_ret>>

\* `if line.startswith("file_names["):`
scan_file_names ==
    /\ ScanStep({"file_names"})
    /\ parsing_file_table' = TRUE
    /\ current_file' = output[s_i].idx
    /\ s_file_table' = Put(s_file_table, output[s_i].idx, EmptyEntry)
    /\ UNCHANGED <<s_line_info, recorded_at>>

\* `elif parsing_file_table:` with its two inner tests; any other line is passed over
scan_file_table_line ==
    /\ ScanStep({"name", "dir_index", "Address", "row", "other"})
    /\ parsing_file_table
    /\ s_file_table' =
          IF output[s_i].kind = "name"
          THEN [s_file_table EXCEPT ![current_file].named = TRUE,
                                    ![current_file].name = output[s_i].path]
          ELSE IF output[s_i].kind = "dir_index"
          THEN [s_file_table EXCEPT ![current_file].has_dir = TRUE,
                                    ![current_file].dir_index = output[s_i].idx]
          ELSE s_file_table
    /\ parsing_file_table' = (output[s_i].kind # "dir_index")
    /\ UNCHANGED <<s_line_info, current_file, recorded_at>>

\* `elif line.startswith("Address"):`
scan_address_header ==
    /\ ScanStep({"Address"})
    /\ ~parsing_file_table
    /\ parsing_file_table' = FALSE
    /\ UNCHANGED <<s_file_table, s_line_info, current_file, recorded_at>>

\* `elif match := line_entry_pattern.search(line):`
scan_address_row ==
    /\ ScanStep({"row"})
    /\ ~parsing_file_table
    /\ s_line_info' = Append(s_line_info, LineTableRow(output[s_i]))
    /\ recorded_at' = Append(recorded_at, s_i)
    /\ UNCHANGED <<s_file_table, current_file, parsing_file_table>>

\* no test of the loop body matches
scan_unmatched_line ==
    /\ ScanStep({"name", "dir_index", "other"})
    /\ ~parsing_file_table
    /\ UNCHANGED <<s_file_table, s_line_info, current_file, parsing_file_table, recorded_at>>

\* `return file_table, line_info`
parse_debug_line_returns ==
    /\ s_pc = "scan"
    /\ s_i > Len(output)
    /\ s_ret' = <<s_file_table, s_line_info>>
    /\ s_first' = IF s_call = 1 THEN <<s_file_table, s_line_info>> ELSE s_first
    /\ s_pc' = "returned"
    /\ UNCHANGED <<output, s_i, s_file_table, s_line_info, current_file,
                   parsing_file_table, recorded_at, s_call, s_self>>


\* dumps in which a file index is declared more than once
MaxTableLines == 5
RedeclarationLines ==
    {Declaration(1), NameLine(<<"src", "a.c">>), NameLine(<<"x.h">>), DirIndexLine(0),
     AddressRow(1, 7, <<"is_stmt">>)}
RedeclarationDumps == UNION {[1..n -> RedeclarationLines] : n \in 1..MaxTableLines}

\* get_line_nums: `file_table, line_info = self.parse_debug_line(dwarfdump_output)`
\* followed by `self.get_line_numbers_by_file(file_table, line_info)`
get_line_numbers_by_file_call ==
    /\ s_pc = "returned"
    /\ g_pc = "idle"
    /\ file_table' = s_ret[1]
    /\ line_info' = s_ret[2]
    /\ g_i' = 1
    /\ line_numbers_by_file' = <<>>
    /\ g_pc' = "loop"
    /\ UNCHANGED g_ret

(***************************************************************************)
(* One worker process of the pool of BinaryAnalyzer.get_line_numbers: it   *)
(* runs Binary.get_line_numbers for its tasks one after another, and each  *)
(* get_line_nums calls verify_line_nums for the files of its binary        *)
(***************************************************************************)
MaxJobs == 2

SessionAfter_Kept(state, ops) == state

\* what the finally block of _lldb_session does to the session
SessionAfter(state, ops) ==
    IF "SBDebugger.Destroy" \in Range(ops) THEN "destroyed" ELSE state

WorkerIdle ==
    /\ w_pc = "idle"
    /\ w_tasks = <<>>
    /\ w_bin = 0
    /\ w_file = 0
    /\ w_calls = 0
    /\ sessions = <<>>
    /\ w_target = "unbound"
    /\ w_fail = ""

WorkerInit ==
    /\ w_pc = "fetch"
    /\ w_tasks \in UNION {[1..n -> 0..MaxFiles] : n \in 1..MaxJobs}
    /\ w_bin = 0
    /\ w_file = 0
    /\ w_calls = 0
    /\ sessions = <<>>
    /\ w_target = "unbound"
    /\ w_fail = ""

\* the worker takes its next task: Binary.get_line_numbers -> get_line_nums
worker_next_task ==
    /\ w_pc = "fetch"
    /\ w_bin < Len(w_tasks)
    /\ w_bin' = w_bin + 1
    /\ w_file' = 0
    /\ w_pc' = "files"
    /\ UNCHANGED <<w_tasks, w_calls, sessions, w_target, w_fail>>

\* `for source_file, line_numbers in ...: if source_file in source_files:`
\* `verified_lines = self.verify_line_nums(...)`
verify_line_nums_call ==
    /\ w_pc = "files"
    /\ w_file < w_tasks[w_bin]
    /\ w_file' = w_file + 1
    /\ w_calls' = w_calls + 1
    /\ w_pc' = "create"
    /\ UNCHANGED <<w_tasks, w_bin, sessions, w_target, w_fail>>

\* the loop is exhausted: `return verified_line_numbers`
get_line_nums_returns ==
    /\ w_pc = "files"
    /\ w_file = w_tasks[w_bin]
    /\ w_pc' = "fetch"
    /\ UNCHANGED <<w_tasks, w_bin, w_file, w_calls, sessions, w_target, w_fail>>

\* `with self._lldb_session(file_path)`: debugger = SBDebugger.Create()
lldb_session_create ==
    /\ w_pc = "create"
    /\ sessions' = Append(sessions, [binary |-> w_bin, file |-> w_file, state |-> "live"])
    /\ w_target' = "unbound"
    /\ w_fail' = ""
    /\ w_pc' = "target"
    /\ UNCHANGED <<w_tasks, w_bin, w_file, w_calls>>

\* target = debugger.CreateTargetWithFileAndArch(...); `yield target` when valid
lldb_session_target(outcome) ==
    /\ w_pc = "target"
    /\ w_target' = IF outcome = "raise" THEN "unbound" ELSE outcome
    /\ w_fail' = CASE outcome = "valid" -> ""
                   [] outcome = "invalid" -> "target_invalid"
                   [] OTHER -> "target_raise"
    /\ w_pc' = IF outcome = "valid" THEN "body" ELSE "finally"
    /\ UNCHANGED <<w_tasks, w_bin, w_file, w_calls, sessions>>

\* the body of the with statement runs to its return (f = "") or leaves at f
verify_body(f) ==
    /\ w_pc = "body"
    /\ w_fail' = f
    /\ w_pc' = "finally"
    /\ UNCHANGED <<w_tasks, w_bin, w_file, w_calls, sessions, w_target>>

\* LaunchSimple or Continue never returns: no timeout bounds the launched program
verify_body_blocks ==
    /\ w_pc = "body"
    /\ w_pc' = "blocked"
    /\ UNCHANGED <<w_tasks, w_bin, w_file, w_calls, sessions, w_target, w_fail>>

\* the finally block of _lldb_session, then the call returns to the loop of
\* get_line_nums or raises into its `except Exception: return {}`
lldb_session_finally ==
    /\ w_pc = "finally"
    /\ sessions' = [sessions EXCEPT ![Len(sessions)].state =
                        SessionAfter(@, ReleaseOps(impl, w_fail, "none", w_target))]
    /\ w_pc' = IF ReturnKind(impl, w_fail) = "raise" THEN "fetch" ELSE "files"
    /\ UNCHANGED <<w_tasks, w_bin, w_file, w_calls, w_target, w_fail>>

(***************************************************************************)
(* The specifications.                                                     *)
(***************************************************************************)
RestIdle == DetectIdle /\ PoolIdle /\ FanIdle /\ PipeIdle /\ FoldIdle /\ ScanIdle /\ WorkerIdle

\* generate_variants has returned and left a retained list
AfterSweep ==
    /\ gv_pc = "returned"
    /\ oi = 1
    /\ di = 1
    /\ binaries \in RetainedLists
    /\ file_hashes = {}
    /\ disk = <<>>
    /\ invoked = <<>>

DetectFrame ==
    UNCHANGED <<sweepVars, verifyVars, filesVars, linesVars, issuesVars, cleanupVars,
                poolVars, fanVars, pipeVars, foldVars,
                scanVars, workerVars>>
PoolFrame ==
    UNCHANGED <<sweepVars, verifyVars, filesVars, linesVars, issuesVars, cleanupVars,
                detectVars, fanVars, pipeVars, foldVars,
                scanVars, workerVars>>
FanFrame ==
    UNCHANGED <<sweepVars, verifyVars, filesVars, linesVars, issuesVars, cleanupVars,
                detectVars, poolVars, pipeVars, foldVars,
                scanVars, workerVars>>
FoldFrame ==
    UNCHANGED <<sweepVars, verifyVars, filesVars, linesVars, issuesVars, cleanupVars,
                detectVars, poolVars, fanVars, pipeVars,
                scanVars, workerVars>>
ScanFrame ==
    UNCHANGED <<sweepVars, verifyVars, filesVars, linesVars, issuesVars, cleanupVars,
                detectVars, poolVars, fanVars, pipeVars, foldVars, workerVars>>
PipeFrame ==
    UNCHANGED <<sweepVars, verifyVars, filesVars, linesVars, issuesVars, cleanupVars,
                detectVars, poolVars, fanVars, foldVars,
                scanVars, workerVars>>

SweepIdle ==
    /\ gv_pc = "idle"
    /\ oi = 1
    /\ di = 1
    /\ binaries = <<>>
    /\ file_hashes = {}
    /\ disk = <<>>
    /\ invoked = <<>>

SweepFrame == UNCHANGED <<verifyVars, filesVars, linesVars, issuesVars, cleanupVars, restVars>>
CleanupFrame == UNCHANGED <<verifyVars, filesVars, linesVars, issuesVars, restVars>>
VerifyFrame == UNCHANGED <<sweepVars, filesVars, linesVars, issuesVars, cleanupVars, restVars>>
FilesFrame ==
    UNCHANGED <<sweepVars, v_pc, line_numbers, bp_i, breakpoints, verified_line_nums,
                hit, proc, dbg, target, fail, ret, relLog, nstops, stoppedAt,
                qualified, faithful, linesVars, issuesVars, cleanupVars, restVars>>
LinesFrame ==
    UNCHANGED <<gv_pc, oi, di, file_hashes, disk, invoked, verifyVars, filesVars,
                issuesVars, cleanupVars, restVars>>
IssuesFrame == UNCHANGED <<sweepVars, verifyVars, filesVars, linesVars, cleanupVars, restVars>>

\* BinaryAnalyzer.generate_variants on a freshly constructed analyzer
Init ==
    /\ SweepInit /\ impl = "utils" /\ VerifyIdle /\ FilesIdle /\ LinesIdle /\ IssuesIdle
    /\ CleanupIdle /\ RestIdle
Next ==
    \/ generate_variants_begin /\ SweepFrame
    \/ \E h \in Hashes : CompileSucceeds(h) /\ SweepFrame
    \/ CompileExitsNonZero /\ SweepFrame
    \/ CompileCannotStart /\ SweepFrame
    \/ CompileNeverReturns /\ SweepFrame
    \/ TemporaryDirectory_exit /\ CleanupFrame
    \/ cleanup /\ CleanupFrame
Spec == Init /\ [][Next]_vars

\* the first two calls of run_analysis: generate_variants, get_line_numbers
RetainFrame == UNCHANGED <<verifyVars, filesVars, issuesVars, cleanupVars, restVars>>
RInit ==
    /\ SweepInit /\ impl = "utils" /\ VerifyIdle /\ FilesIdle /\ LinesIdle /\ IssuesIdle
    /\ CleanupIdle /\ RestIdle
RNext ==
    \/ generate_variants_begin /\ SweepFrame
    \/ \E h \in Hashes : CompileSucceeds(h) /\ SweepFrame
    \/ CompileExitsNonZero /\ SweepFrame
    \/ \E verified \in SUBSET DOMAIN binaries : get_line_numbers(verified) /\ RetainFrame
RetainSpec == RInit /\ [][RNext]_vars

\* the methods of one BinaryAnalyzer called in any order: generate_variants
\* up to MaxSweeps times, get_line_numbers, cleanup
ApiInit ==
    /\ SweepInit /\ impl = "utils" /\ VerifyIdle /\ FilesIdle /\ LinesIdle /\ IssuesIdle
    /\ CleanupIdle /\ RestIdle
ApiNext ==
    \/ generate_variants_begin /\ SweepFrame
    \/ generate_variants_again /\ SweepFrame
    \/ \E h \in Hashes : CompileSucceeds(h) /\ SweepFrame
    \/ CompileExitsNonZero /\ SweepFrame
    \/ \E verified \in SUBSET DOMAIN binaries : get_line_numbers(verified) /\ RetainFrame
    \/ cleanup /\ CleanupFrame
ApiSpec == ApiInit /\ [][ApiNext]_vars

\* one call of verify_line_nums, in either module
VInit == SweepIdle /\ VerifyInit /\ FilesIdle /\ LinesIdle /\ IssuesIdle /\ CleanupIdle /\ RestIdle
VNext ==
    \/ CreateDebugger /\ VerifyFrame
    \/ CreateTargetValid /\ VerifyFrame
    \/ CreateTargetInvalid /\ VerifyFrame
    \/ CreateTargetRaises /\ VerifyFrame
    \/ \E valid \in BOOLEAN : CreateBreakpoint(valid) /\ VerifyFrame
    \/ CreateBreakpointRaises /\ VerifyFrame
    \/ \E state \in {"stopped", "exited"} : LaunchValid(state) /\ VerifyFrame
    \/ LaunchInvalid /\ VerifyFrame
    \/ LaunchRaises /\ VerifyFrame
    \/ LaunchNeverReturns /\ VerifyFrame
    \/ \E line \in FrameLines, newhits \in SUBSET Range(breakpoints),
          next \in {"stopped", "exited"} :
            LoopIteration("breakpoint", line, newhits, next) /\ VerifyFrame
    \/ \E newhits \in SUBSET Range(breakpoints), next \in {"stopped", "exited"} :
            LoopIteration("other", 0, newhits, next) /\ VerifyFrame
    \/ ContinueNeverReturns /\ VerifyFrame
    \/ LoopRaises /\ VerifyFrame
    \/ LoopEnds /\ VerifyFrame
    \/ Release /\ VerifyFrame
VerifySpec == VInit /\ [][VNext]_vars

\* one call of get_line_nums, in either module
FInit ==
    /\ SweepIdle /\ impl \in Impls /\ VerifyIdle /\ FilesInit /\ LinesIdle /\ IssuesIdle
    /\ CleanupIdle /\ RestIdle
FNext ==
    \/ DumpSucceeds /\ FilesFrame
    \/ DumpFails /\ FilesFrame
    \/ SkipFile /\ FilesFrame
    \/ \E f \in FailPoints \cup {""}, S \in SUBSET Lines : VerifyFile(f, S) /\ FilesFrame
    \/ ReturnMap /\ FilesFrame
FilesSpec == FInit /\ [][FNext]_vars

\* BinaryAnalyzer.get_line_numbers on the retained list a sweep left
LInit ==
    /\ gv_pc = "returned"
    /\ oi = 1
    /\ di = 1
    /\ binaries \in RetainedLists
    /\ file_hashes = {}
    /\ disk = <<>>
    /\ invoked = <<>>
    /\ impl = "utils"
    /\ VerifyIdle /\ FilesIdle /\ IssuesIdle /\ CleanupIdle /\ RestIdle
    /\ l_pc = "ready"
    /\ results = <<>>
    /\ worker_fail = <<>>
    /\ worker_map = <<>>
    /\ before = <<>>
LNext ==
    \/ get_line_numbers_begin /\ LinesFrame
    \/ \E k \in DOMAIN results, failure \in WorkerFailures \cup {""}, m \in WorkerMaps :
          Worker(k, failure, m) /\ LinesFrame
    \/ get_line_numbers_join /\ LinesFrame
LinesSpec == LInit /\ [][LNext]_vars

\* BinaryAnalyzer._find_issues_type1_2 on one binary
IInit ==
    /\ SweepIdle /\ impl = "utils" /\ VerifyIdle /\ FilesIdle /\ LinesIdle /\ IssuesInit
    /\ CleanupIdle /\ RestIdle
INext ==
    \/ ClassifyValue /\ IssuesFrame
    \/ ReturnIssues /\ IssuesFrame
IssuesSpec == IInit /\ [][INext]_vars

\* BinaryAnalyzer.find_issues_type1_2 on the retained list a sweep left
DInit ==
    /\ AfterSweep /\ impl = "utils" /\ VerifyIdle /\ FilesIdle /\ LinesIdle /\ IssuesIdle
    /\ CleanupIdle /\ WorkerIdle /\ PoolIdle /\ FanIdle /\ PipeIdle /\ FoldIdle /\ ScanIdle
    /\ d_pc = "ready"
    /\ d_state = <<>>
    /\ d_found = <<>>
    /\ issues = <<>>
    /\ evidence = {}
    /\ d_out = ""
    /\ d_order = <<>>
DNext ==
    \/ find_issues_type1_2_begin /\ DetectFrame
    \/ \E k \in DOMAIN binaries, raises \in BOOLEAN :
          \E found \in FoundLists(binaries[k]) :
              find_issues_worker(k, raises, found) /\ DetectFrame
    \/ find_issues_type1_2_raises /\ DetectFrame
    \/ find_issues_type1_2_finish /\ DetectFrame
DetectSpec == DInit /\ [][DNext]_vars

\* the verification of several binaries from either entry point
PInit ==
    /\ SweepIdle /\ impl = "utils" /\ VerifyIdle /\ FilesIdle /\ LinesIdle /\ IssuesIdle
    /\ CleanupIdle /\ WorkerIdle /\ DetectIdle /\ FanIdle /\ PipeIdle /\ FoldIdle /\ ScanIdle
    /\ entry \in EntryPoints
    /\ pool_pc = "ready"
    /\ task_state = <<>>
    /\ task_worker = <<>>
PNext ==
    \/ \E n \in 1..MaxTasks : executor_submit(n) /\ PoolFrame
    \/ \E w \in 1..PoolWorkers : worker_takes(w) /\ PoolFrame
    \/ \E k \in DOMAIN task_state : worker_returns(k) /\ PoolFrame
    \/ executor_shutdown /\ PoolFrame
PoolSpec == PInit /\ [][PNext]_vars

\* ParallelSourceAnalysis.run_parallel_analysis over a list of source files
FanInit ==
    /\ SweepIdle /\ impl = "utils" /\ VerifyIdle /\ FilesIdle /\ LinesIdle /\ IssuesIdle
    /\ CleanupIdle /\ WorkerIdle /\ DetectIdle /\ PoolIdle /\ PipeIdle /\ FoldIdle /\ ScanIdle
    /\ fan_pc = "ready"
    /\ src_state = <<>>
    /\ it_pos = 1
FanNext ==
    \/ \E n \in 1..MaxSources : run_parallel_analysis_begin(n) /\ FanFrame
    \/ queue_call /\ FanFrame
    \/ analyze_single_source_starts /\ FanFrame
    \/ \E k \in DOMAIN src_state, raises \in BOOLEAN :
          analyze_single_source_ends(k, raises) /\ FanFrame
    \/ result_taken /\ FanFrame
    \/ result_raises /\ FanFrame
    \/ run_parallel_analysis_raises /\ FanFrame
FanSpec == FanInit /\ [][FanNext]_vars

\* ParallelSourceAnalysis.analyze_single_source for one source file
AInit ==
    /\ SweepIdle /\ impl = "utils" /\ VerifyIdle /\ FilesIdle /\ LinesIdle /\ IssuesIdle
    /\ CleanupIdle /\ WorkerIdle /\ DetectIdle /\ PoolIdle /\ FanIdle /\ FoldIdle /\ ScanIdle
    /\ a_pc = "sweep"
    /\ PipeStart
ANext ==
    \/ \E outcome \in {"kept", "duplicate", "failed", "raise"} :
          run_analysis_compile(outcome) /\ PipeFrame
    \/ run_analysis_get_line_numbers /\ PipeFrame
    \/ \E k \in DOMAIN ver : verification_starts(k) /\ PipeFrame
    \/ \E k \in DOMAIN ver, failed \in BOOLEAN : verification_ends(k, failed) /\ PipeFrame
    \/ run_analysis_find_issues /\ PipeFrame
    \/ \E k \in DOMAIN det : detection_starts(k) /\ PipeFrame
    \/ \E k \in DOMAIN det, outcome \in {"none", "issues", "raised"} :
          detection_ends(k, outcome) /\ PipeFrame
    \/ find_issues_joined /\ PipeFrame
    \/ \E done \in SUBSET DOMAIN det, raises \in BOOLEAN :
          write_results(done, raises) /\ PipeFrame
    \/ run_analysis_exit /\ PipeFrame
    \/ analysis_cleanup /\ PipeFrame
AnalysisSpec == AInit /\ [][ANext]_vars

\* get_line_numbers_by_file on a parsed file table and row list
GInit ==
    /\ SweepIdle /\ impl = "utils" /\ VerifyIdle /\ FilesIdle /\ LinesIdle /\ IssuesIdle
    /\ CleanupIdle /\ WorkerIdle /\ DetectIdle /\ PoolIdle /\ FanIdle /\ PipeIdle /\ ScanIdle
    /\ FoldInit
GNext ==
    \/ fold_entry /\ FoldFrame
    \/ get_line_numbers_by_file_returns /\ FoldFrame
FoldSpec == GInit /\ [][GNext]_vars

\* parse_debug_line called MaxCalls times on one dump text
SInit ==
    /\ SweepIdle /\ impl = "utils" /\ VerifyIdle /\ FilesIdle /\ LinesIdle /\ IssuesIdle
    /\ CleanupIdle /\ WorkerIdle /\ DetectIdle /\ PoolIdle /\ FanIdle /\ PipeIdle /\ FoldIdle
    /\ ScanInit
SNext ==
    \/ \E e \in 1..2 : parse_debug_line_begin(e) /\ ScanFrame
    \/ scan_file_names /\ ScanFrame
    \/ scan_file_table_line /\ ScanFrame
    \/ scan_address_header /\ ScanFrame
    \/ scan_address_row /\ ScanFrame
    \/ scan_unmatched_line /\ ScanFrame
    \/ parse_debug_line_returns /\ ScanFrame
ScanSpec == SInit /\ [][SNext]_vars

\* get_line_nums up to the candidate lines: parse_debug_line on a dump with
\* re-declared file indices, then get_line_numbers_by_file on what it returned
TInit ==
    /\ SweepIdle /\ impl = "utils" /\ VerifyIdle /\ FilesIdle /\ LinesIdle /\ IssuesIdle
    /\ CleanupIdle /\ WorkerIdle /\ DetectIdle /\ PoolIdle /\ FanIdle /\ PipeIdle /\ FoldIdle
    /\ s_pc = "ready"
    /\ output \in RedeclarationDumps
    /\ s_i = 1
    /\ s_file_table = <<>>
    /\ s_line_info = <<>>
    /\ current_file = 0
    /\ parsing_file_table = FALSE
    /\ recorded_at = <<>>
    /\ s_call = 0
    /\ s_self = 0
    /\ s_first = <<>>
    /\ s_ret = <<>>
TNext ==
    \/ (s_call = 0 /\ parse_debug_line_begin(1)) /\ ScanFrame
    \/ scan_file_names /\ ScanFrame
    \/ scan_file_table_line /\ ScanFrame
    \/ scan_address_row /\ ScanFrame
    \/ scan_unmatched_line /\ ScanFrame
    \/ parse_debug_line_returns /\ ScanFrame
    \/ get_line_numbers_by_file_call /\ FoldFrame
    \/ fold_entry /\ FoldFrame
    \/ get_line_numbers_by_file_returns /\ FoldFrame
TableSpec == TInit /\ [][TNext]_vars

WorkerFrame ==
    UNCHANGED <<sweepVars, verifyVars, filesVars, linesVars, issuesVars, cleanupVars,
                detectVars, poolVars, fanVars, pipeVars, foldVars, scanVars>>

\* one worker process of the verification pool and the tasks it is given
WInit ==
    /\ SweepIdle /\ impl = "utils" /\ VerifyIdle /\ FilesIdle /\ LinesIdle /\ IssuesIdle
    /\ CleanupIdle /\ DetectIdle /\ PoolIdle /\ FanIdle /\ PipeIdle /\ FoldIdle /\ ScanIdle
    /\ WorkerInit
WNext ==
    \/ worker_next_task /\ WorkerFrame
    \/ verify_line_nums_call /\ WorkerFrame
    \/ get_line_nums_returns /\ WorkerFrame
    \/ lldb_session_create /\ WorkerFrame
    \/ \E outcome \in {"valid", "invalid", "raise"} : lldb_session_target(outcome) /\ WorkerFrame
    \/ \E f \in {"", "bp_raise", "launch_raise", "launch_invalid", "loop_raise"} :
          verify_body(f) /\ WorkerFrame
    \/ verify_body_blocks /\ WorkerFrame
    \/ lldb_session_finally /\ WorkerFrame
WorkerSpec == WInit /\ [][WNext]_vars

\* analyze_single_source after its sweep: the temporary directory is removed and
\* the cleanup methods are called, each possibly a second time
CInit ==
    /\ SweepInit /\ impl = "utils" /\ VerifyIdle /\ FilesIdle /\ LinesIdle /\ IssuesIdle
    /\ CleanupIdle /\ RestIdle
CNext ==
    \/ generate_variants_begin /\ SweepFrame
    \/ \E h \in Hashes : CompileSucceeds(h) /\ SweepFrame
    \/ CompileExitsNonZero /\ SweepFrame
    \/ CompileCannotStart /\ SweepFrame
    \/ TemporaryDirectory_exit /\ CleanupFrame
    \/ cleanup /\ CleanupFrame
    \/ SingleSourceAnalysis_cleanup /\ CleanupFrame
CleanupSpec == CInit /\ [][CNext]_vars

(***************************************************************************)
(* Properties.                                                             *)
(***************************************************************************)
\* C1 (Spec): during and after generate_variants on an analyzer whose retained
\* list was empty, no two retained binaries have the same content hash, whatever
\* the compile outcomes and whichever pairs produced equal hashes.
C1_NoDuplicateHash == DistinctHashes(binaries)

\* two different pairs produced the same content, and a second content was kept too
C1_Witness ==
    /\ gv_pc = "returned"
    /\ Len(binaries) = 2
    /\ \E p, q \in OnDisk : p # q /\ disk[p] = disk[q]

\* C2 (VerifySpec): every line verify_line_nums collects or returns is a member of
\* the candidate list passed in, for every debugger behaviour.
C2_VerifiedSubset ==
    /\ verified_line_nums \subseteq Range(line_numbers)
    /\ ret.kind = "list" => Range(ret.val) \subseteq Range(line_numbers)

\* a non-empty proper part of the candidates was returned although the debugger
\* also stopped at a line that is no candidate
C2_Witness ==
    /\ v_pc = "done"
    /\ ret.kind = "list"
    /\ ret.val # <<>>
    /\ Len(ret.val) < Len(line_numbers)
    /\ stoppedAt \ Range(line_numbers) # {}

\* C3 (VerifySpec): a line is verified exactly if some breakpoint stop had it as
\* the top frame's current line while the breakpoint requested at it had fired;
\* a line whose breakpoint never fired is not returned; with a debugger that only
\* stops where the breakpoint of that line fired, the returned lines are the
\* lines stopped at, so requests {5, 6, 9} with stops at 5 and 6 give [5, 6].
C3_VerifiedIffStoppedAtHitLine ==
    /\ verified_line_nums = qualified
    /\ ret.kind = "list" =>
         /\ Range(ret.val) = qualified
         /\ \A l \in Range(line_numbers) \ hit : l \notin Range(ret.val)
         /\ faithful => Range(ret.val) = stoppedAt
         /\ (/\ line_numbers = <<5, 6, 9>>
             /\ breakpoints = <<5, 6, 9>>
             /\ faithful
             /\ stoppedAt = {5, 6}
             /\ 9 \notin hit) => ret.val = <<5, 6>>

\* the run through 5 and 6 with breakpoints requested at 5, 6 and 9
C3_Witness ==
    /\ v_pc = "done"
    /\ line_numbers = <<5, 6, 9>>
    /\ breakpoints = <<5, 6, 9>>
    /\ faithful
    /\ nstops = 2
    /\ stoppedAt = {5, 6}
    /\ hit = {5, 6}
    /\ ret = [kind |-> "list", val |-> <<5, 6>>]

\* C4 (IssuesSpec): a value with a non-empty error message that is a known error
\* appends one Issue (naming the value and its message) when it is pointer-typed
\* and none when it is not.
C4_KnownErrorPointerAsymmetry ==
    (last.error_message # "" /\ last.known) =>
        IF last.pointer
        THEN /\ lastAdded = 1
             /\ binary_issues # <<>>
             /\ binary_issues[Len(binary_issues)].error_message =
                   <<last.name, last.error_message>>
        ELSE lastAdded = 0

\* a pointer-typed value with the known error "wild read" was recorded
C4_Witness ==
    /\ last.pointer
    /\ last.known
    /\ last.error_message = "wild read"
    /\ lastAdded = 1
    /\ Len(binary_issues) >= 1

\* C5 (VerifySpec): every call that created a debugger session object has
\* destroyed it when the call has returned or raised.
C5_DebuggerDestroyed == v_pc = "done" => dbg = "destroyed"

\* C6 (VerifySpec): when the call ends with a launched process whose handle is
\* valid, the release killed and destroyed the process before it detached the
\* target and destroyed the debugger.
C6_ProcessKilledFirst ==
    (v_pc = "done" /\ proc \in {"stopped", "exited", "killed"}) =>
        \E i, j \in DOMAIN relLog :
            /\ i < j
            /\ relLog[i] = "process.Kill"
            /\ relLog[j] = "process.Destroy"
            /\ \A m \in DOMAIN relLog :
                  relLog[m] \in {"debugger.DeleteTarget", "SBDebugger.Destroy"} => j < m

\* C7 (FilesSpec): when the verification of one file fails, that file has no
\* entry in the returned map, every compile unit with candidates was still
\* verified, and every other file's non-empty verified list is in the map.
C7_FileFailureContained ==
    (f_pc = "done" /\ f_err # "dump") =>
        \A k \in DOMAIN by_file :
            by_file[k].file \in source_files =>
                /\ f_out[k] \in {"list", "None", "raise"}
                /\ f_out[k] \in {"None", "raise"} => by_file[k].file \notin Keys(f_ret)
                /\ (f_out[k] = "list" /\ f_val[k] # <<>>) =>
                       Entry(by_file[k].file, f_val[k]) \in Range(f_ret)

\* C8 (LinesSpec): get_line_numbers keeps the retained list's members and order;
\* a binary whose verification failed has an empty line-number map and every
\* other binary has the map its own verification produced.
C8_BinaryFailureContained ==
    /\ l_pc = "mapping" => binaries = before
    /\ l_pc = "done" =>
         /\ Len(binaries) = Len(before)
         /\ \A k \in DOMAIN binaries :
               /\ binaries[k].optimization_level = before[k].optimization_level
               /\ binaries[k].debug_level = before[k].debug_level
               /\ binaries[k].hash_value = before[k].hash_value
               /\ binaries[k].line_numbers =
                     IF worker_fail[k] # "" THEN <<>> ELSE worker_map[k]

\* the first binary's dump failed, the second was verified
C8_Witness ==
    /\ l_pc = "done"
    /\ Len(binaries) = 2
    /\ worker_fail[1] = "dwarfdump"
    /\ binaries[1].line_numbers = <<>>
    /\ worker_fail[2] = ""
    /\ binaries[2].line_numbers # <<>>

\* C9 (Spec): no compile failure ends the sweep: no exception leaves
\* generate_variants, every pair is compiled, and only pairs whose compilation
\* succeeded contribute a binary.
C9_SweepSurvivesFailure ==
    /\ gv_pc # "raised"
    /\ gv_pc = "returned" =>
         /\ invoked = PairSeq
         /\ \A k \in DOMAIN binaries : ArtifactOf(binaries[k]) \in OnDisk

\* C10 (Spec): after generate_variants every artifact in the output directory
\* belongs to a retained binary.
C10_OnlyRetainedArtifacts ==
    gv_pc = "returned" => OnDisk \subseteq {ArtifactOf(binaries[k]) : k \in DOMAIN binaries}

\* C11 (Spec): after BinaryAnalyzer.cleanup the artifact of every binary that was
\* retained before the call is gone from disk, the retained list is empty, every
\* other entry of the output directory is untouched, and the directory is gone
\* exactly if nothing remained in it once those artifacts were deleted.
C11_CleanupPostcondition ==
    c_pc = "cleaned" =>
        /\ binaries = <<>>
        /\ \A k \in DOMAIN c_before : ArtifactOf(c_before[k]) \notin OnDisk
        /\ disk = AfterUnlink(c_disk, c_before)
        /\ ~dir_exists <=> OnDisk = {}

\* the retained binary's artifact was deleted and the directory was kept because
\* the artifact of a duplicate was still in it
C11_Witness ==
    /\ c_pc = "cleaned"
    /\ Len(c_before) = 1
    /\ ArtifactOf(c_before[1]) \in DOMAIN c_disk
    /\ ArtifactOf(c_before[1]) \notin OnDisk
    /\ OnDisk # {}
    /\ dir_exists

C15_ExtractionFailureContained ==
    (d_pc \in {"done", "raised"} /\ \E k \in DOMAIN d_state : d_state[k] = "raised") =>
        /\ d_pc = "done"
        /\ \A k \in DOMAIN d_found : Range(d_found[k]) \subseteq Range(issues)
        /\ issues # <<>> => evidence = WriteResults(issues, binaries)

\* C13 (PoolSpec): from either entry point, no OS process ever has the
\* verification of two different binaries in progress at the same time.
C13_OneVerificationPerProcess ==
    \A p \in 0..PoolWorkers : Cardinality(VerifyingIn(p)) <= 1

\* C14 (FanSpec): when the analysis of one source file ends with an exception,
\* the analysis of every other source file of the list is still started and run
\* to its end, also of the files not started when the exception was observed:
\* no analysis is cancelled, and when run_parallel_analysis has returned or
\* raised every analysis has ended.
C14_EverySourceAnalysed ==
    /\ InState("cancelled") = {}
    /\ fan_pc \in {"returned", "raised"} =>
         \A k \in DOMAIN src_state : src_state[k] \in {"done", "failed"}

\* C16 (VerifySpec): every line verification ends, also when the launched
\* program never exits: a call that has not ended can always take a step (a
\* timeout kills the process and releases the session when the program hangs).
C16_VerificationEnds == v_pc = "done" \/ ENABLED VNext

\* C17 (Spec): generate_variants completes, also when a compiler invocation
\* never returns: a sweep that has not returned or raised can always take a
\* step (a timeout ends the invocation and the remaining pairs are compiled).
C17_SweepEnds == gv_pc \in {"returned", "raised"} \/ ENABLED Next

Started(st) == {k \in DOMAIN st : st[k] # "waiting"}
Deleted == {k \in DOMAIN ver : k \notin artifacts}

\* C18 (AnalysisSpec): for one source file the phases do not overlap and run in
\* the order sweep, verification, issue detection, evidence writing, deletion:
\* a verification starts only after the last compilation, a detection only when
\* every verification has ended, evidence is written only when every detection
\* has ended, an artifact or the directory is deleted only when no worker is
\* running and the evidence of the run has been written, and a binary is
\* copied while its artifact is still on disk.
C18_PhaseOrder ==
    /\ Started(ver) # {} => a_k > NumPairs
    /\ Started(det) # {} => \A k \in DOMAIN ver : ver[k] = "done"
    /\ copied # {} => \A k \in DOMAIN det : det[k] \in {"none", "issues"}
    /\ (Deleted # {} \/ ~a_dir) =>
         /\ \A k \in DOMAIN ver : ver[k] = "done" /\ det[k] \notin {"waiting", "running"}
         /\ ~a_exc => copied = {k \in DOMAIN det : det[k] = "issues"}
    /\ copied_live = copied

\* both retained binaries were verified and analysed, the one with issues was
\* copied, and then the artifacts and the directory were deleted
C18_Witness ==
    /\ a_pc = "end"
    /\ ~a_exc
    /\ Len(ver) = 2
    /\ det = <<"issues", "none">>
    /\ copied = {1}
    /\ Deleted = {1, 2}
    /\ ~a_dir

\* C19 (AnalysisSpec): the line-number map of a retained binary is assigned at
\* most once, only by the verification task of that binary, and exactly once
\* before the issue detector of that binary starts to read it.
C19_MapWrittenOnceBeforeRead ==
    \A k \in DOMAIN map_writes :
        /\ Len(map_writes[k]) <= 1
        /\ map_writers[k] \subseteq {k}
        /\ ver[k] = "done" <=> Len(map_writes[k]) = 1
        /\ det[k] # "waiting" => (Len(map_writes[k]) = 1 /\ map_writers[k] = {k})

\* the detector of the second binary is reading a map that the except clause
\* of its verification task assigned, while the first binary's is still waiting
C19_Witness ==
    /\ a_pc = "detect"
    /\ Len(ver) = 2
    /\ det = <<"waiting", "running">>
    /\ map_writes = <<<<"try">>, <<"except">>>>

\* the rows that carry the marker and whose file index maps to a name with base name f
RowsOf(f) ==
    {k \in DOMAIN line_info :
        /\ "is_stmt" \in Range(line_info[k].flags)
        /\ line_info[k].file \in DOMAIN file_table
        /\ file_table[line_info[k].file].named
        /\ Basename(file_table[line_info[k].file].name) = f}

BaseNames == {Basename(p) : p \in Paths}

\* C20 (FoldSpec): get_line_numbers_by_file returns one entry for each base file
\* name f that has a row with the is_stmt marker whose file index maps through
\* the file table to a name with base name f; the entry holds exactly the line
\* numbers of those rows, strictly ascending; rows without the marker or with
\* an index absent from the table add nothing; two marked rows at file 1,
\* line 10 with index 1 mapped to "a.c" give {"a.c": [10]}.
C20_FoldOfRows ==
    g_pc = "done" =>
        /\ Keys(g_ret) = {f \in BaseNames : RowsOf(f) # {}}
        /\ \A i, j \in DOMAIN g_ret : i # j => g_ret[i].file # g_ret[j].file
        /\ \A j \in DOMAIN g_ret :
              /\ Range(g_ret[j].lines) = {line_info[k].line : k \in RowsOf(g_ret[j].file)}
              /\ \A x, y \in DOMAIN g_ret[j].lines :
                    x < y => g_ret[j].lines[x] < g_ret[j].lines[y]
        /\ (/\ 1 \in DOMAIN file_table
            /\ file_table[1] = [named |-> TRUE, name |-> <<"a.c">>]
            /\ Len(line_info) = 2
            /\ \A k \in DOMAIN line_info :
                  /\ line_info[k].file = 1
                  /\ line_info[k].line = 10
                  /\ "is_stmt" \in Range(line_info[k].flags)) => g_ret = <<Entry("a.c", <<10>>)>>

\* two marked rows at file 1, line 10, index 1 mapped to "a.c"
C20_Witness ==
    /\ g_pc = "done"
    /\ 1 \in DOMAIN file_table
    /\ file_table[1] = [named |-> TRUE, name |-> <<"a.c">>]
    /\ line_info = <<[file |-> 1, line |-> 10, flags |-> <<"is_stmt">>],
                     [file |-> 1, line |-> 10, flags |-> <<"is_stmt">>]>>
    /\ g_ret = <<Entry("a.c", <<10>>)>>

\* C21: parse_debug_line depends on its input text only: a second call on
\* the same text, on the same extractor or on another one, returns a file
\* table and a row list equal to those of the first call, rows in the same
\* order, and starts from the same scan state as the first.
C21_ParseDependsOnTextOnly ==
    /\ (s_pc = "returned" /\ s_call = 2) => s_ret = s_first
    /\ (s_pc = "scan" /\ s_i = 1) =>
          /\ ~parsing_file_table /\ current_file = 0
          /\ s_file_table = <<>> /\ s_line_info = <<>>

\* the second call has returned, on another extractor, after a first call that
\* ended inside the file-table scan state and recorded a row before it
C21_Witness ==
    /\ s_pc = "returned" /\ s_call = 2 /\ s_self = 2
    /\ parsing_file_table
    /\ s_ret[2] # <<>>
    /\ DOMAIN s_ret[1] # {}

\* the line at position j follows a header of the address listing with no
\* declaration line in between
AfterHeader(j) ==
    \E h \in 1..(j - 1) :
        /\ output[h].kind = "Address"
        /\ \A m \in (h + 1)..(j - 1) : output[m].kind # "file_names"

\* C23: every address row after the header of the address listing is
\* recorded as exactly one LineTableRow, in order of appearance, also when
\* the file-table entry before the header has no dir_index line.
C23_RowsAfterHeaderRecorded ==
    s_pc = "returned" =>
        /\ \A j \in DOMAIN output :
              (output[j].kind = "row" /\ AfterHeader(j)) =>
                  /\ Cardinality({k \in DOMAIN recorded_at : recorded_at[k] = j}) = 1
                  /\ \A k \in DOMAIN recorded_at :
                        recorded_at[k] = j => s_line_info[k] = LineTableRow(output[j])
        /\ \A k1, k2 \in DOMAIN recorded_at : k1 < k2 => recorded_at[k1] < recorded_at[k2]

\* C22: get_line_nums runs verify_line_nums only for files of the
\* compile-unit list, also when another file has candidate lines, and every
\* key of the returned map is a compile unit that has a candidate line.
C22_OnlyCompileUnitsVerified ==
    /\ \A k \in DOMAIN f_out :
          f_out[k] \in {"list", "None", "raise"} => by_file[k].file \in source_files
    /\ \A k \in DOMAIN f_val : f_val[k] # <<>> => by_file[k].file \in source_files
    /\ f_pc = "done" =>
          \A key \in Keys(f_ret) :
              /\ key \in source_files
              /\ \E k \in DOMAIN by_file : by_file[k].file = key /\ by_file[k].lines # <<>>

\* a header with candidate lines was passed over and a compile unit was stored
C22_Witness ==
    /\ f_pc = "done"
    /\ \E k \in DOMAIN by_file :
          /\ by_file[k].file = "x.h" /\ by_file[k].lines # <<>>
          /\ "x.h" \notin source_files
          /\ f_out[k] = "skip"
    /\ "a.c" \in Keys(f_ret)

\* C24: each rule that matches a debug value appends its own Issue: the
\* number appended for one value is [error and not known] + [pointer and
\* error]; a pointer-typed value with an unrecognised error appends two
\* Issues with identical fields, a value without an error message none.
C24_EveryMatchingRuleAppends ==
    LET err == last.error_message # ""
        n == Len(binary_issues)
    IN  /\ lastAdded = (IF err /\ ~last.known THEN 1 ELSE 0)
                       + (IF last.pointer /\ err THEN 1 ELSE 0)
        /\ lastAdded <= n
        /\ (err /\ ~last.known /\ last.pointer) =>
              /\ lastAdded = 2
              /\ binary_issues[n] = binary_issues[n - 1]
              /\ binary_issues[n].error_message = <<last.name, last.error_message>>
        /\ ~err => lastAdded = 0

\* a pointer-typed value with an unrecognised error was classified last,
\* after a value that had appended an Issue of its own
C24_Witness ==
    /\ last.pointer /\ ~last.known /\ last.error_message = "wild read"
    /\ lastAdded = 2
    /\ Len(binary_issues) = 3

\* the position of an issue's visit in the loops of _find_issues_type1_2
VisitIndex(i) ==
    CHOOSE j \in DOMAIN VisitOrder :
        /\ VisitOrder[j].source_file = i.source_file
        /\ VisitOrder[j].line = i.line
        /\ VisitOrder[j].name = i.error_message[1]

\* the index in self.binaries of the binary an issue names
BinaryIndex(i) == CHOOSE k \in DOMAIN binaries : file_name(binaries[k]) = i.binary

\* C25: the flattened list is built and evidence is written only when the
\* workers of all retained binaries have returned; the list is the
\* concatenation of the per-binary lists in the order of the retained list,
\* whatever the order in which the workers ended, and the issues of one
\* binary are in the order of the loops over files, verified lines and values.
C25_FlattenAfterJoinInOrder ==
    /\ (issues # <<>> \/ evidence # {} \/ d_out # "") =>
          \A k \in DOMAIN binaries : d_state[k] = "returned"
    /\ d_pc = "done" =>
          /\ \A k \in DOMAIN binaries :
                SelectSeq(issues, LAMBDA i : i.binary = file_name(binaries[k])) = d_found[k]
          /\ \A j1, j2 \in DOMAIN issues :
                j1 < j2 =>
                    \/ BinaryIndex(issues[j1]) < BinaryIndex(issues[j2])
                    \/ /\ BinaryIndex(issues[j1]) = BinaryIndex(issues[j2])
                       /\ VisitIndex(issues[j1]) < VisitIndex(issues[j2])

\* the worker of the second binary ended first; both found issues, the first
\* in two files and for two values of one line
C25_Witness ==
    /\ d_pc = "done"
    /\ d_order = <<2, 1>>
    /\ Len(d_found[1]) = 3
    /\ d_found[1][2].source_file = "b.c"
    /\ d_found[1][3].error_message[1] = "q"
    /\ d_found[2] # <<>>
    /\ Len(issues) = 3 + Len(d_found[2])
    /\ evidence # {}

\* the candidate lines whose breakpoint request was made and rejected
Rejected == {line_numbers[k] : k \in 1..(bp_i - 1)} \ Range(breakpoints)

\* C26: a rejected breakpoint request does not end the session: the requests
\* for the remaining lines are made before the launch, a call that returns
\* on its normal path has launched the program and run it until it is no
\* longer stopped, and a rejected line is never verified or returned, also
\* when a stop is reported at that line.
C26_RejectedBreakpointDropped ==
    /\ Rejected \cap verified_line_nums = {}
    /\ ret.kind = "list" => Rejected \cap Range(ret.val) = {}
    /\ (v_pc \in {"loop", "blocked"} \/ proc # "none") => bp_i > Len(line_numbers)
    /\ (v_pc \in {"release", "done"} /\ fail = "") =>
          /\ bp_i > Len(line_numbers)
          /\ proc \in {"exited", "killed"}

\* the request at 6 was rejected, the one at 9 was made after it, a stop was
\* reported at 6 and the call returned the line 5
C26_Witness ==
    /\ v_pc = "done"
    /\ line_numbers = <<5, 6, 9>>
    /\ breakpoints = <<5, 9>>
    /\ 6 \in stoppedAt
    /\ ret = [kind |-> "list", val |-> <<5>>]

\* the position of a binary's (opt, debug) pair in the sweep
SweepIndex(b) ==
    CHOOSE k \in DOMAIN PairSeq : PairSeq[k] = <<b.optimization_level, b.debug_level>>

\* the sweep positions of the pairs whose compilation produced content h
ProducedBy(h) == {k \in DOMAIN PairSeq : PairSeq[k] \in OnDisk /\ disk[PairSeq[k]] = h}

\* C27: the retained list is in sweep order (optimization level outer, debug
\* level inner), for each content hash produced it holds exactly the binary
\* of the first pair that produced it, and get_line_numbers keeps the length
\* and the order of the list.
C27_FirstProducerInSweepOrder ==
    /\ \A j, k \in DOMAIN binaries : j < k => SweepIndex(binaries[j]) < SweepIndex(binaries[k])
    /\ \A k \in DOMAIN binaries :
          /\ ArtifactOf(binaries[k]) \in OnDisk
          /\ disk[ArtifactOf(binaries[k])] = binaries[k].hash_value
          /\ SweepIndex(binaries[k]) = Min(ProducedBy(binaries[k].hash_value))
    /\ Len(binaries) = Cardinality({disk[p] : p \in OnDisk})

\* both contents were produced, the second by two pairs, and get_line_numbers
\* gave a map to the second retained binary only
C27_Witness ==
    /\ gv_pc = "returned" /\ l_pc = "done"
    /\ Len(binaries) = 2
    /\ Cardinality(ProducedBy(binaries[2].hash_value)) = 2
    /\ SweepIndex(binaries[1]) = 2
    /\ binaries[1].line_numbers = <<>>
    /\ binaries[2].line_numbers = VerifiedMap

\* the position in PairSeq of the pair the loops are at
SweepPosition == (oi - 1) * NumDbg + di

\* C30: in one sweep the compiler is invoked exactly once per (opt, debug)
\* pair, in sweep order, whatever pairs succeed, exit non-zero or produce a
\* duplicate: no pair is retried and none is skipped.
C30_OneInvocationPerPair ==
    /\ gv_pc = "loop" => invoked = SubSeq(PairSeq, 1, SweepPosition - 1)
    /\ gv_pc = "returned" =>
          /\ Len(invoked) = NumOpt * NumDbg
          /\ \A p \in Range(PairSeq) :
                Cardinality({k \in DOMAIN invoked : invoked[k] = p}) = 1

\* the sweep returned after a non-zero exit of the first pair and a duplicate
C30_Witness ==
    /\ gv_pc = "returned"
    /\ PairSeq[1] \notin OnDisk
    /\ Len(binaries) < Cardinality(OnDisk)
    /\ Len(invoked) = NumOpt * NumDbg

\* C28: after any sequence of generate_variants, get_line_numbers and
\* cleanup calls on one analyzer, generate_variants called twice without a
\* cleanup in between included, no two retained binaries have the same
\* content hash.
C28_NoDuplicateHashAfterAnyCalls ==
    \A j, k \in DOMAIN binaries :
        binaries[j].hash_value = binaries[k].hash_value => j = k

\* C29: when analyze_single_source has returned or raised, whatever phase
\* failed, no artifact compiled for the source file is on disk, the artifacts
\* of duplicates that were not retained included, and the temporary output
\* directory does not exist.
C29_NothingLeftOnDisk ==
    a_pc = "end" =>
        /\ artifacts = {}
        /\ leftover = 0
        /\ ~a_dir

\* evidence writing raised after one of two copies, the exception left
\* run_analysis, and analyze_single_source has ended after its cleanup
C29_Witness ==
    /\ a_pc = "end"
    /\ a_exc
    /\ det = <<"issues", "issues">>
    /\ copied = {1}
    /\ a_k = NumPairs + 1
    /\ ~a_dir

\* C33: every value of the map get_line_nums returns is a non-empty, strictly
\* ascending list of lines; a file whose verification returned an empty list
\* or None has no key in the map.
C33_ValuesNonEmptyAscending ==
    /\ \A j \in DOMAIN verified_line_numbers :
          LET lines == verified_line_numbers[j].lines
          IN  /\ lines # <<>>
              /\ \A a, b \in DOMAIN lines : a < b => lines[a] < lines[b]
    /\ f_pc = "done" =>
          /\ \A j \in DOMAIN f_ret :
                LET lines == f_ret[j].lines
                IN  /\ lines # <<>>
                    /\ \A a, b \in DOMAIN lines : a < b => lines[a] < lines[b]
          /\ \A k \in DOMAIN by_file :
                (f_out[k] = "None" \/ (f_out[k] = "list" /\ f_val[k] = <<>>)) =>
                    by_file[k].file \notin Keys(f_ret)

\* the verification of b.c returned an empty list, that of a.c both of its lines
C33_Witness ==
    /\ f_pc = "done"
    /\ Len(by_file) = 2
    /\ by_file[1].file = "b.c" /\ f_out[1] = "list" /\ f_val[1] = <<>>
    /\ f_ret = <<Entry("a.c", <<5, 6>>)>>

\* the position of the last declaration of file index idx in the dump, 0 if none
LastDeclaration(idx) ==
    LET at == {p \in DOMAIN output :
                  output[p].kind = "file_names" /\ output[p].idx = idx}
    IN  IF at = {} THEN 0 ELSE CHOOSE p \in at : \A q \in at : q <= p
\* the name lines that belong to the declaration at position p
NameLinesOf(p) ==
    {q \in DOMAIN output :
        /\ q > p
        /\ output[q].kind = "name"
        /\ \A r \in (p + 1)..(q - 1) : output[r].kind \notin {"file_names", "dir_index"}}
\* the base name the last declaration of idx gives, "" when it gives none
LastDeclaredName(idx) ==
    LET p == LastDeclaration(idx)
    IN  IF p = 0 \/ NameLinesOf(p) = {} THEN ""
        ELSE LET q == CHOOSE q \in NameLinesOf(p) : \A r \in NameLinesOf(p) : r <= q
             IN  output[q].path[Len(output[q].path)]
\* the lines of the recorded statement rows whose index was last declared as name
LinesUnder(name) ==
    {output[recorded_at[j]].line : j \in
        {j \in DOMAIN recorded_at :
            /\ \E t \in DOMAIN output[recorded_at[j]].flags :
                  output[recorded_at[j]].flags[t] = "is_stmt"
            /\ LastDeclaredName(output[recorded_at[j]].idx) = name}}

\* C32: the file table is one map for the whole dump: the last declaration of a
\* file index is the one the table returns, and the fold files every recorded
\* row under the name of the last declaration of its index, also a row that
\* stands in the dump before the re-declaration.
C32_LastDeclarationResolvesAllRows ==
    /\ s_pc = "returned" =>
          /\ DOMAIN s_ret[1] = {i \in {1, 2} : LastDeclaration(i) # 0}
          /\ \A i \in DOMAIN s_ret[1] :
                Basename(NameOf(s_ret[1], i)) = LastDeclaredName(i)
    /\ g_pc = "done" =>
          \A name \in {"a.c", "x.h"} :
             IF LinesUnder(name) = {}
             THEN name \notin Keys(g_ret)
             ELSE \E j \in DOMAIN g_ret : g_ret[j] = Entry(name, SortedSeq(LinesUnder(name)))

\* a row of file 1 stands before two declarations of file 1, first as src/a.c,
\* then as x.h: its line is filed under x.h
C32_Witness ==
    /\ g_pc = "done"
    /\ output = <<AddressRow(1, 7, <<"is_stmt">>), Declaration(1), NameLine(<<"src", "a.c">>),
                  Declaration(1), NameLine(<<"x.h">>)>>
    /\ g_ret = <<Entry("x.h", <<7>>)>>

\* the sessions of this process that exist (created and not destroyed)
LiveSessions == {j \in DOMAIN sessions : sessions[j].state = "live"}

\* C31: in one worker process at most one debugger session exists at any time,
\* every call of verify_line_nums has a session of its own, and a session is
\* destroyed before the session of the next file or of the next binary is created.
C31_OneSessionAtATime ==
    /\ Cardinality(LiveSessions) <= 1
    /\ \A j \in DOMAIN sessions : j < Len(sessions) => sessions[j].state = "destroyed"
    /\ w_pc = "create" => LiveSessions = {}
    /\ w_pc \in {"fetch", "files"} => LiveSessions = {}
    /\ Len(sessions) = IF w_pc = "create" THEN w_calls - 1 ELSE w_calls
    /\ \A i, j \in DOMAIN sessions :
          (sessions[i].binary = sessions[j].binary /\ sessions[i].file = sessions[j].file)
             => i = j

\* two files of the first binary and one of the second were verified, the second
\* binary's session being created after both earlier ones were destroyed
C31_Witness ==
    /\ Len(sessions) = 3
    /\ sessions[1].binary = 1 /\ sessions[2].binary = 1 /\ sessions[3].binary = 2
    /\ sessions[1].state = "destroyed" /\ sessions[2].state = "destroyed"
    /\ sessions[3].state = "live"
    /\ w_pc = "body"

\* C34 as stated: a second call of a cleanup method, and a call made after the
\* temporary output directory and its artifacts were removed, raises no error and
\* leaves the disk and the analyzer's retained list unchanged.
C34_CallsLeaveStateUnchanged ==
    [][(c_pc' # c_pc /\ (c_pc = "cleaned" \/ ~dir_exists)) =>
          /\ ~c_err'
          /\ disk' = disk
          /\ dir_exists' = dir_exists
          /\ binaries' = binaries
          /\ analyzer = "None" => analyzer' = "None"]_vars

\* C34 (amended): no call of a cleanup method raises; a second call leaves the
\* disk, the output directory, the retained list and a cleared analyzer reference
\* unchanged; a call made after the temporary output directory and its artifacts
\* were removed leaves the disk unchanged and empties the retained list.
C34_CleanupIdempotentTolerant ==
    [][c_pc' # c_pc =>
          /\ ~c_err'
          /\ c_pc = "cleaned" =>
                /\ disk' = disk
                /\ dir_exists' = dir_exists
                /\ binaries' = binaries
                /\ analyzer = "None" => analyzer' = "None"
          /\ ~dir_exists =>
                /\ disk' = disk
                /\ dir_exists' = dir_exists
                /\ binaries' = <<>>]_vars

\* after a full sweep the output directory is gone and SingleSourceAnalysis.cleanup
\* has run; a further call of a cleanup method has returned
C34_Witness ==
    /\ c_pc = "again"
    /\ analyzer = "None"
    /\ ~c_err
    /\ ~dir_exists
    /\ Len(invoked) = NumPairs
    /\ c_before = <<>>
    /\ binaries = <<>>
    /\ disk = <<>>

====
